---- MODULE Spec2Model ----
(***************************************************************************)
(* CourseIntel API: the DataService singleton (lazy CSV load, derived      *)
(* collections, read operations), the ProfessorService enrichment client   *)
(* (cache, external fetch with timeout, merge / fallback) and the          *)
(* controllers that answer the HTTP routes.                                *)
(*                                                                         *)
(* Strings whose characters matter (course codes, names, the limit and     *)
(* Difficulty fields) are sequences of one-character strings.  A comment   *)
(* is a sequence of words.  average_difficulty is kept in hundredths.      *)
(***************************************************************************)
EXTENDS Integers, Sequences, FiniteSets, TLC

\* ------------------------------------------------------------------ bounds
NumCallers == 2
MaxLoads == 2
NumReq == 1
BigResult == 52
MaxRows == 2
MaxReviews == 4
MaxGroup == 3
MaxBigGroup == 5

\* ------------------------------------------------------- character helpers
LowerSeq == <<"a","b","c","d","e","f","g","h","i","j","k","l","m",
              "n","o","p","q","r","s","t","u","v","w","x","y","z">>
UpperSeq == <<"A","B","C","D","E","F","G","H","I","J","K","L","M",
              "N","O","P","Q","R","S","T","U","V","W","X","Y","Z">>
DigitSeq == <<"0","1","2","3","4","5","6","7","8","9">>

IsUpper(c) == \E i \in 1..26 : UpperSeq[i] = c
IsLower(c) == \E i \in 1..26 : LowerSeq[i] = c
IsLetter(c) == IsUpper(c) \/ IsLower(c)
IsDigit(c) == \E i \in 1..10 : DigitSeq[i] = c
IsSpace(c) == c = " "
DigitVal(c) == (CHOOSE i \in 1..10 : DigitSeq[i] = c) - 1

\* String.prototype.toUpperCase / toLowerCase, one character
ToUpperChar(c) == IF IsLower(c) THEN UpperSeq[CHOOSE i \in 1..26 : LowerSeq[i] = c] ELSE c
ToLowerChar(c) == IF IsUpper(c) THEN LowerSeq[CHOOSE i \in 1..26 : UpperSeq[i] = c] ELSE c
toUpperCase(s) == [i \in 1..Len(s) |-> ToUpperChar(s[i])]
toLowerCase(s) == [i \in 1..Len(s) |-> ToLowerChar(s[i])]

\* String.prototype.includes
includes(s, sub) ==
    \E i \in 0..(Len(s) - Len(sub)) : \A j \in 1..Len(sub) : s[i + j] = sub[j]

\* String.prototype.trim
trim(s) ==
    LET nonsp == {i \in 1..Len(s) : ~IsSpace(s[i])}
    IN  IF nonsp = {} THEN <<>>
        ELSE LET lo == CHOOSE i \in nonsp : \A j \in nonsp : i <= j
                 hi == CHOOSE i \in nonsp : \A j \in nonsp : i >= j
             IN  SubSeq(s, lo, hi)

\* s.replace(/\s+/g, rep): every maximal run of whitespace becomes rep
RECURSIVE replaceSpaceRuns(_, _)
replaceSpaceRuns(s, rep) ==
    IF s = <<>> THEN <<>>
    ELSE IF IsSpace(Head(s))
         THEN IF Len(s) > 1 /\ IsSpace(s[2])
              THEN replaceSpaceRuns(Tail(s), rep)
              ELSE rep \o replaceSpaceRuns(Tail(s), rep)
         ELSE <<Head(s)>> \o replaceSpaceRuns(Tail(s), rep)

\* parseInt(s): leading whitespace, optional sign, then the longest run of
\* digits; NaN when there is no digit.  The result is [nan, v].
RECURSIVE DigitsValue(_, _)
DigitsValue(s, acc) ==
    IF s = <<>> \/ ~IsDigit(Head(s)) THEN acc
    ELSE DigitsValue(Tail(s), acc * 10 + DigitVal(Head(s)))

parseInt(s) ==
    LET t == trim(s)
        neg == t # <<>> /\ Head(t) = "-"
        u == IF t # <<>> /\ (Head(t) = "-" \/ Head(t) = "+") THEN Tail(t) ELSE t
    IN  IF u = <<>> \/ ~IsDigit(Head(u)) THEN [nan |-> TRUE, v |-> 0]
        ELSE [nan |-> FALSE, v |-> IF neg THEN 0 - DigitsValue(u, 0) ELSE DigitsValue(u, 0)]

\* faulty variant of RoundedHundredths: the third decimal is cut off
RoundedHundredthsTruncated(num, den) == (100 * num) \div den

\* Math.round(x * 100) / 100 of the quotient num / den (den > 0, num >= 0),
\* in hundredths: round half up
RoundedHundredths(num, den) == (2 * 100 * num + den) \div (2 * den)

\* ------------------------------------------------------------ sequence helpers
RECURSIVE SumSeq(_)
SumSeq(s) == IF s = <<>> THEN 0 ELSE Head(s) + SumSeq(Tail(s))

MapDifficulty(revs) == [i \in 1..Len(revs) |-> revs[i].difficulty]

\* keys of a Map / members of a Set in insertion order (first occurrence)
RECURSIVE InsertionOrder(_)
InsertionOrder(s) ==
    IF s = <<>> THEN <<>>
    ELSE LET rest == InsertionOrder(SubSeq(s, 1, Len(s) - 1))
             x == s[Len(s)]
         IN  IF \E i \in 1..Len(rest) : rest[i] = x THEN rest ELSE Append(rest, x)

\* Array.prototype.slice(0, end) : a negative end counts from the back
slice0(s, end) ==
    LET n == Len(s)
        e == IF end < 0 THEN (IF n + end < 0 THEN 0 ELSE n + end)
             ELSE (IF end > n THEN n ELSE end)
    IN  SubSeq(s, 1, e)

\* Array.prototype.slice(-k) for k > 0
sliceLast(s, k) == SubSeq(s, (IF Len(s) - k < 0 THEN 0 ELSE Len(s) - k) + 1, Len(s))

\* faulty variant of reverse: the order is kept
reverseKeepsOrder(s) == s

reverse(s) == [i \in 1..Len(s) |-> s[Len(s) + 1 - i]]

\* Array.prototype.sort is stable: an element is placed after every element
\* that does not compare greater.  Before(a, b) <=> comparator(a, b) <= 0.
RECURSIVE sortByTotalReviewsDesc(_)
sortByTotalReviewsDesc(s) ==
    IF Len(s) <= 1 THEN s
    ELSE LET sorted == sortByTotalReviewsDesc(SubSeq(s, 1, Len(s) - 1))
             x == s[Len(s)]
             k == Cardinality({i \in 1..Len(sorted) : sorted[i].total_reviews >= x.total_reviews})
         IN  SubSeq(sorted, 1, k) \o <<x>> \o SubSeq(sorted, k + 1, Len(sorted))

RECURSIVE sortByDifficultyAsc(_)
sortByDifficultyAsc(s) ==
    IF Len(s) <= 1 THEN s
    ELSE LET sorted == sortByDifficultyAsc(SubSeq(s, 1, Len(s) - 1))
             x == s[Len(s)]
             k == Cardinality({i \in 1..Len(sorted) : sorted[i].average_difficulty <= x.average_difficulty})
         IN  SubSeq(sorted, 1, k) \o <<x>> \o SubSeq(sorted, k + 1, Len(sorted))

\* ------------------------------------------------ DataService: row utilities
\* code.trim().toUpperCase().replace(/\s+/g, '')
normalizeCourseCode(code) == replaceSpaceRuns(toUpperCase(trim(code)), <<>>)

UNKNOWN == <<"U","N","K","N","O","W","N">>

RECURSIVE UpperPrefix(_)
UpperPrefix(s) ==
    IF s = <<>> \/ ~IsUpper(Head(s)) THEN <<>> ELSE <<Head(s)>> \o UpperPrefix(Tail(s))

\* courseCode.match(/^([A-Z]+)/)
extractDepartment(courseCode) ==
    IF UpperPrefix(courseCode) = <<>> THEN UNKNOWN ELSE UpperPrefix(courseCode)

\* A comment is a sequence of words separated by single blanks.  Words are
\* letters, optionally ended by a period.  null is the empty sequence.
NoName == <<>>

RECURSIVE LetterPrefix(_)
LetterPrefix(w) ==
    IF w = <<>> \/ ~IsLetter(Head(w)) THEN <<>> ELSE <<Head(w)>> \o LetterPrefix(Tail(w))

RECURSIVE LetterSuffix(_)
LetterSuffix(w) ==
    IF w = <<>> \/ ~IsLetter(w[Len(w)]) THEN <<>>
    ELSE LetterSuffix(SubSeq(w, 1, Len(w) - 1)) \o <<w[Len(w)]>>

TitleWords == { <<"p","r","o","f">>, <<"p","r","o","f",".">>,
                <<"p","r","o","f","e","s","s","o","r">>,
                <<"d","r">>, <<"d","r",".">> }
WithWord == <<"w","i","t","h">>
IsWord == <<"i","s">>
WasWord == <<"w","a","s">>

\* [A-Z][a-z]+ under the i flag: two or more letters
StartsName(w) == Len(LetterPrefix(w)) >= 2

\* ([A-Z][a-z]+(?:\s+[A-Z][a-z]+)*) matched greedily from word i of comment
RECURSIVE CaptureName(_, _)
CaptureName(comment, i) ==
    LET w == comment[i]
        first == LetterPrefix(w)
    IN  IF first = w /\ i < Len(comment) /\ StartsName(comment[i + 1])
        THEN first \o <<" ">> \o CaptureName(comment, i + 1)
        ELSE first

FirstIndex(S) == CHOOSE i \in S : \A j \in S : i <= j

extractProfessorName(comment) ==
    LET n == Len(comment)
        p1 == {i \in 1..(n - 1) : toLowerCase(comment[i]) \in TitleWords /\ StartsName(comment[i + 1])}
        p2 == {i \in 1..(n - 1) : toLowerCase(comment[i]) = WithWord /\ StartsName(comment[i + 1])}
        p3 == {i \in 1..(n - 1) : /\ Len(LetterSuffix(comment[i])) >= 2
                                  /\ \/ toLowerCase(slice0(comment[i + 1], 2)) = IsWord
                                     \/ toLowerCase(slice0(comment[i + 1], 3)) = WasWord}
    IN  IF comment = <<>> THEN NoName
        ELSE IF p1 # {} THEN trim(CaptureName(comment, FirstIndex(p1) + 1))
        ELSE IF p2 # {} THEN trim(CaptureName(comment, FirstIndex(p2) + 1))
        ELSE IF p3 # {} THEN trim(LetterSuffix(comment[FirstIndex(p3)]))
        ELSE NoName

\* faulty variant of calculateDifficultyDistribution: difficulty 2 is counted
\* as very_easy and as easy
calculateDifficultyDistributionOverlap(difficulties) ==
    LET count(P(_)) == Cardinality({i \in 1..Len(difficulties) : P(difficulties[i])})
        ve(d) == d <= 2
        ea(d) == d >= 2 /\ d <= 4
        mo(d) == d >= 5 /\ d <= 6
        ha(d) == d >= 7 /\ d <= 8
        vh(d) == d >= 9
    IN  [very_easy |-> count(ve), easy |-> count(ea), moderate |-> count(mo),
         hard |-> count(ha), very_hard |-> count(vh)]

calculateDifficultyDistribution(difficulties) ==
    LET count(P(_)) == Cardinality({i \in 1..Len(difficulties) : P(difficulties[i])})
        ve(d) == d <= 2
        ea(d) == d >= 3 /\ d <= 4
        mo(d) == d >= 5 /\ d <= 6
        ha(d) == d >= 7 /\ d <= 8
        vh(d) == d >= 9
    IN  [very_easy |-> count(ve), easy |-> count(ea), moderate |-> count(mo),
         hard |-> count(ha), very_hard |-> count(vh)]

\* ------------------------------------------- DataService.processRawData
\* faulty variant of AcceptRow: no upper limit on the difficulty
AcceptRowNoUpperLimit(row) ==
    /\ row.Class # <<>>
    /\ row.Difficulty # <<>>
    /\ normalizeCourseCode(row.Class) # <<>>
    /\ ~parseInt(row.Difficulty).nan
    /\ parseInt(row.Difficulty).v >= 1

\* the guard of the row loop (the three continue statements)
AcceptRow(row) ==
    /\ row.Class # <<>>
    /\ row.Difficulty # <<>>
    /\ normalizeCourseCode(row.Class) # <<>>
    /\ ~parseInt(row.Difficulty).nan
    /\ parseInt(row.Difficulty).v >= 1
    /\ parseInt(row.Difficulty).v <= 10

ReviewOf(row) ==
    [course_code |-> normalizeCourseCode(row.Class),
     difficulty |-> parseInt(row.Difficulty).v,
     professor_name |-> extractProfessorName(row.Comment)]

RECURSIVE RowReviews(_)
RowReviews(rawData) ==
    IF rawData = <<>> THEN <<>>
    ELSE (IF AcceptRow(Head(rawData)) THEN <<ReviewOf(Head(rawData))>> ELSE <<>>)
         \o RowReviews(Tail(rawData))

CourseOf(courseCode, revs) ==
    [course_code |-> courseCode,
     department |-> extractDepartment(courseCode),
     average_difficulty |-> RoundedHundredths(SumSeq(MapDifficulty(revs)), Len(revs)),
     total_reviews |-> Len(revs),
     difficulty_distribution |-> calculateDifficultyDistribution(MapDifficulty(revs))]

ProfessorOf(name, revs) ==
    [name |-> name,
     courses_taught |-> InsertionOrder([i \in 1..Len(revs) |-> revs[i].course_code]),
     average_difficulty |-> RoundedHundredths(SumSeq(MapDifficulty(revs)), Len(revs)),
     total_reviews |-> Len(revs)]

BuildCourses(revs) ==
    LET codes == InsertionOrder([i \in 1..Len(revs) |-> revs[i].course_code])
        of(code) == SelectSeq(revs, LAMBDA r : r.course_code = code)
    IN  [i \in 1..Len(codes) |-> CourseOf(codes[i], of(codes[i]))]

BuildProfessors(revs) ==
    LET named == SelectSeq(revs, LAMBDA r : r.professor_name # NoName)
        names == InsertionOrder([i \in 1..Len(named) |-> named[i].professor_name])
        of(name) == SelectSeq(named, LAMBDA r : r.professor_name = name)
    IN  [i \in 1..Len(names) |-> ProfessorOf(names[i], of(names[i]))]

DepartmentOf(deptCode, crs) ==
    LET deptCourses == SelectSeq(crs, LAMBDA c : c.department = deptCode)
        sortedByDifficulty == sortByDifficultyAsc(deptCourses)
        sortedByReviews == sortByTotalReviewsDesc(deptCourses)
        codesOf(s) == [i \in 1..Len(s) |-> s[i].course_code]
        \* the mean of the courses' rounded averages, itself rounded
        sum100 == SumSeq([i \in 1..Len(deptCourses) |-> deptCourses[i].average_difficulty])
    IN  [code |-> deptCode,
         total_courses |-> Len(deptCourses),
         average_difficulty |-> (2 * sum100 + Len(deptCourses)) \div (2 * Len(deptCourses)),
         easiest_courses |-> codesOf(slice0(sortedByDifficulty, 3)),
         hardest_courses |-> codesOf(reverse(sliceLast(sortedByDifficulty, 3))),
         most_reviewed_courses |-> codesOf(slice0(sortedByReviews, 5))]

BuildDepartments(revs, crs) ==
    LET depts == InsertionOrder([i \in 1..Len(revs) |-> extractDepartment(revs[i].course_code)])
    IN  [i \in 1..Len(depts) |-> DepartmentOf(depts[i], crs)]

\* the DataService fields after processRawData(rawData) ran on the fields d:
\* reviews are pushed onto this.reviews, the other three are replaced
processRawData(d, rawData) ==
    LET revs == RowReviews(rawData)
        crs == BuildCourses(revs)
    IN  [d EXCEPT !.reviews = d.reviews \o revs,
                  !.courses = crs,
                  !.professors = BuildProfessors(revs),
                  !.departments = BuildDepartments(revs, crs)]

\* ------------------------------------------------------------- the CSV file
\* the texts the rows, the calls and the requests are made of
Txt ==
    [ wDr |-> <<"D","r",".">>,
      wWith |-> <<"w","i","t","h">>,
      wLin |-> <<"L","i","n">>,
      wLi |-> <<"L","i">>,
      wWu |-> <<"W","u">>,
      cCS1 |-> <<"c","s"," ","1">>,
      cAHS7 |-> <<"A","H","S","7">>,
      cAHS9 |-> <<"A","H","S","9">>,
      cAHS1 |-> <<"A","H","S","1">>,
      cAHS2 |-> <<"A","H","S","2">>,
      sX |-> <<"x">>,
      sAB |-> <<"a"," ","b">>,
      sABwide |-> <<"A"," "," ","B">>,
      sCS |-> <<"c","s">>,
      sCS1 |-> <<"c","s","1">>,
      sAHS7 |-> <<"A","H","S","7">>,
      sZZ1 |-> <<"Z","Z","1">>,
      sBlank |-> <<" ">>,
      sLi |-> <<"l","i">> ]

RawRow(class, difficulty, comment) ==
    [Class |-> class, Difficulty |-> difficulty, Comment |-> comment]

\* the contents data/ucr-courses.csv may have (rows after the header)
CsvInvalid == << RawRow(Txt.cCS1, <<"1","1">>, <<>>), RawRow(<<>>, <<"3">>, <<Txt.wDr, Txt.wWu>>) >>
CsvLin ==
    << RawRow(Txt.cCS1, <<"2">>, <<Txt.wDr, Txt.wLin>>),
       RawRow(Txt.cAHS7, <<"8">>, <<Txt.wWith, Txt.wLi>>),
       RawRow(Txt.cAHS7, <<"4">>, <<>>) >>
CsvWu ==
    << RawRow(Txt.cAHS9, <<"9">>, <<Txt.wDr, Txt.wWu>>),
       RawRow(Txt.cAHS7, <<"3">>, <<Txt.wDr, Txt.wWu>>),
       RawRow(Txt.cAHS7, <<"x">>, <<>>),
       RawRow(Txt.cAHS7, <<"4">>, <<Txt.wWu, <<"i","s">>, <<"o","k">> >>) >>
CsvFiles == {<<>>, CsvInvalid, CsvLin, CsvWu}

\* ------------------------------------------------------------------- state
VARIABLES
    \* DataService fields
    courses, reviews, professors, departments, isDataLoaded, loadingPromise,
    \* the promises performDataLoad returned: state and reactions in order
    promiseState, waiters,
    \* the file system: content of the CSV and whether it can be read
    csv, fileOk,
    \* the microtask queue
    mq,
    \* direct callers of the DataService (startup pre-load, tests)
    callerPc, callerOp, callerStarter, callerAwaits, callerStatus, callerObs,
    \* history: number of readFileSync calls and of completed aggregation passes
    readCount, parseCount, callerInFlight, callerFileOk

storeVars == <<courses, reviews, professors, departments, isDataLoaded, loadingPromise,
               promiseState, waiters, readCount, parseCount>>
envVars == <<csv, fileOk>>
callerVars == <<mq, callerPc, callerOp, callerStarter, callerAwaits, callerStatus,
                callerObs, callerInFlight, callerFileOk>>

VARIABLES
    \* ProfessorService fields
    isEnabled, cache,
    \* app.listen's callback has run
    started,
    \* the requests in progress: position, handler, parameters, the service
    \* call the handler is suspended in, the professor names still to enrich
    \* and the enhanced professors so far; and, as history, the external
    \* requests made for it and the cache entry under the key of a direct
    \* service call when it was made
    req,
    \* history: what the last step delivered, the response a handler sent or
    \* the value a direct service call returned
    event

svcVars == <<isEnabled, cache, started>>
reqVars == <<req, event>>

Callers == 1..NumCallers
Promises == 1..MaxLoads
NULL == 0

StoreOps == {"loadData", "getAllCourses"}

\* the DataService fields as one record, and their assignment
DS ==
    [courses |-> courses, reviews |-> reviews, professors |-> professors,
     departments |-> departments, isDataLoaded |-> isDataLoaded,
     loadingPromise |-> loadingPromise]

SetDS(d) ==
    /\ courses' = d.courses
    /\ reviews' = d.reviews
    /\ professors' = d.professors
    /\ departments' = d.departments
    /\ isDataLoaded' = d.isDataLoaded
    /\ loadingPromise' = d.loadingPromise

EmptyDS ==
    [courses |-> <<>>, reviews |-> <<>>, professors |-> <<>>, departments |-> <<>>,
     isDataLoaded |-> FALSE, loadingPromise |-> NULL]

Snapshot(d) ==
    [courses |-> d.courses, reviews |-> d.reviews, professors |-> d.professors,
     departments |-> d.departments, isDataLoaded |-> d.isDataLoaded]

NoObs == Snapshot(EmptyDS)

\* ------------------------------------------------------ DataService.loadData
\* faulty variants of loadDataBranch: one that does not join a load in
\* progress, one that does not return early once the data is loaded
loadDataBranchNoJoin(d) ==
    IF d.isDataLoaded /\ Len(d.courses) > 0 THEN "cached" ELSE "start"

loadDataBranchNeverCached(d) ==
    IF d.loadingPromise # NULL THEN "wait" ELSE "start"

\* which way loadData goes on entry: "cached" (line 29), "wait" (line 35),
\* "start" (line 42)
loadDataBranch(d) ==
    IF d.isDataLoaded /\ Len(d.courses) > 0 THEN "cached"
    ELSE IF d.loadingPromise # NULL THEN "wait"
    ELSE "start"

\* performDataLoad up to its first await: the file is read and parsed and
\* processRawData runs (it never suspends); if reading throws, the catch
\* block runs at once and the returned promise is already rejected
performDataLoadStart(d, ok, rawData) ==
    IF ok THEN processRawData(d, rawData)
    ELSE [d EXCEPT !.loadingPromise = NULL]

\* performDataLoad after its await (lines 67-71): the promise is fulfilled
performDataLoadResume(d) == [d EXCEPT !.isDataLoaded = TRUE]

\* loadData from "start" to its await: line 42 stores the promise p that
\* performDataLoad returned
loadDataStart(d, ok, rawData, p) ==
    [performDataLoadStart(d, ok, rawData) EXCEPT !.loadingPromise = p]

\* loadData after its await: a rejected promise throws there, so line 44
\* runs only for the caller that started a load that was fulfilled
loadDataResume(d, starter, pstate) ==
    IF starter /\ pstate = "fulfilled" THEN [d EXCEPT !.loadingPromise = NULL] ELSE d

\* a load is in flight from the call that started it until that call's
\* loadData resumes (returns or throws)
InFlight ==
    /\ loadingPromise # NULL
    /\ \E c \in Callers : /\ callerPc[c] = "loadData_await"
                          /\ callerStarter[c]
                          /\ callerAwaits[c] = loadingPromise

\* a caller invokes loadData, directly or through a Store operation
CallStoreOp(c, op) ==
    /\ callerPc[c] \in {"idle", "done"}
    /\ callerOp' = [callerOp EXCEPT ![c] = op]
    /\ callerObs' = [callerObs EXCEPT ![c] = NoObs]
    /\ callerInFlight' = [callerInFlight EXCEPT ![c] = InFlight]
    /\ callerFileOk' = [callerFileOk EXCEPT ![c] = fileOk]
    /\ LET b == loadDataBranch(DS) IN
       \/ /\ b = "cached"
          /\ callerPc' = [callerPc EXCEPT ![c] = "op_await"]
          /\ callerStatus' = [callerStatus EXCEPT ![c] = "ok"]
          /\ callerStarter' = [callerStarter EXCEPT ![c] = FALSE]
          /\ callerAwaits' = [callerAwaits EXCEPT ![c] = NULL]
          /\ mq' = Append(mq, [k |-> "caller", id |-> c])
          /\ UNCHANGED storeVars
       \/ /\ b = "wait"
          /\ callerPc' = [callerPc EXCEPT ![c] = "loadData_await"]
          /\ callerStatus' = [callerStatus EXCEPT ![c] = "none"]
          /\ callerStarter' = [callerStarter EXCEPT ![c] = FALSE]
          /\ callerAwaits' = [callerAwaits EXCEPT ![c] = loadingPromise]
          /\ IF promiseState[loadingPromise] = "pending"
             THEN /\ waiters' = [waiters EXCEPT ![loadingPromise] = Append(@, c)]
                  /\ mq' = mq
             ELSE /\ waiters' = waiters
                  /\ mq' = Append(mq, [k |-> "caller", id |-> c])
          /\ UNCHANGED <<courses, reviews, professors, departments, isDataLoaded,
                         loadingPromise, promiseState, readCount, parseCount>>
       \/ /\ b = "start"
          /\ readCount < MaxLoads
          /\ LET p == readCount + 1 IN
             /\ SetDS(loadDataStart(DS, fileOk, csv, p))
             /\ readCount' = p
             /\ parseCount' = IF fileOk THEN parseCount + 1 ELSE parseCount
             /\ promiseState' = [promiseState EXCEPT ![p] = IF fileOk THEN "pending" ELSE "rejected"]
             /\ callerAwaits' = [callerAwaits EXCEPT ![c] = p]
             /\ IF fileOk
                THEN /\ waiters' = [waiters EXCEPT ![p] = <<c>>]
                     /\ mq' = Append(mq, [k |-> "perform", id |-> p])
                ELSE /\ waiters' = waiters
                     /\ mq' = Append(mq, [k |-> "caller", id |-> c])
          /\ callerPc' = [callerPc EXCEPT ![c] = "loadData_await"]
          /\ callerStatus' = [callerStatus EXCEPT ![c] = "none"]
          /\ callerStarter' = [callerStarter EXCEPT ![c] = TRUE]
    /\ UNCHANGED envVars
    /\ UNCHANGED svcVars
    /\ UNCHANGED reqVars

\* microtask: performDataLoad resumes, sets isDataLoaded and fulfils its
\* promise; the promise's reactions are queued in registration order
PerformDataLoadResume ==
    /\ mq # <<>>
    /\ Head(mq).k = "perform"
    /\ LET p == Head(mq).id IN
       /\ SetDS(performDataLoadResume(DS))
       /\ promiseState' = [promiseState EXCEPT ![p] = "fulfilled"]
       /\ mq' = Tail(mq) \o [i \in 1..Len(waiters[p]) |-> [k |-> "caller", id |-> waiters[p][i]]]
       /\ waiters' = [waiters EXCEPT ![p] = <<>>]
    /\ UNCHANGED <<readCount, parseCount, callerPc, callerOp, callerStarter, callerAwaits,
                   callerStatus, callerObs, callerInFlight, callerFileOk>>
    /\ UNCHANGED envVars
    /\ UNCHANGED svcVars
    /\ UNCHANGED reqVars

\* microtask: loadData resumes after "await this.loadingPromise" and returns
\* or throws; the awaiting operation is queued next
LoadDataResume ==
    /\ mq # <<>>
    /\ Head(mq).k = "caller"
    /\ LET c == Head(mq).id
           ps == promiseState[callerAwaits[c]]
       IN
       /\ callerPc[c] = "loadData_await"
       /\ SetDS(loadDataResume(DS, callerStarter[c], ps))
       /\ callerStatus' = [callerStatus EXCEPT ![c] = IF ps = "rejected" THEN "thrown" ELSE "ok"]
       /\ callerPc' = [callerPc EXCEPT ![c] = "op_await"]
       /\ mq' = Append(Tail(mq), [k |-> "caller", id |-> c])
    /\ UNCHANGED <<promiseState, waiters, readCount, parseCount, callerOp, callerStarter,
                   callerAwaits, callerObs, callerInFlight, callerFileOk>>
    /\ UNCHANGED envVars
    /\ UNCHANGED svcVars
    /\ UNCHANGED reqVars

\* microtask: whoever awaited loadData() resumes: a Store operation reads
\* the collections (lines 292-293), a direct caller goes on
StoreOpResume ==
    /\ mq # <<>>
    /\ Head(mq).k = "caller"
    /\ LET c == Head(mq).id IN
       /\ callerPc[c] = "op_await"
       /\ callerPc' = [callerPc EXCEPT ![c] = "done"]
       /\ callerObs' = [callerObs EXCEPT ![c] = IF callerStatus[c] = "ok" THEN Snapshot(DS) ELSE NoObs]
       /\ mq' = Tail(mq)
    /\ UNCHANGED <<callerOp, callerStarter, callerAwaits, callerStatus, callerInFlight, callerFileOk>>
    /\ UNCHANGED storeVars
    /\ UNCHANGED envVars
    /\ UNCHANGED svcVars
    /\ UNCHANGED reqVars

\* the environment makes the CSV file unreadable, or readable again
ToggleFile ==
    /\ fileOk' = ~fileOk
    /\ csv' = csv
    /\ UNCHANGED storeVars
    /\ UNCHANGED callerVars
    /\ UNCHANGED svcVars
    /\ UNCHANGED reqVars


\* ======================================================== ProfessorService
\* JSON values carry a tag t: "null", "undefined" or "object".  Ratings and
\* difficulties are in hundredths, combined_rating in thousandths and
\* recommendation_score in tenths.
JsonNull == [t |-> "null"]
Undefined == [t |-> "undefined"]

\* the test "if (cached)"
Truthy(v) == v.t = "object"

Max(a, b) == IF a >= b THEN a ELSE b
Min(a, b) == IF a <= b THEN a ELSE b

RECURSIVE NatToStr(_)
NatToStr(n) == IF n < 10 THEN <<DigitSeq[n + 1]>> ELSE NatToStr(n \div 10) \o <<DigitSeq[(n % 10) + 1]>>

sAny == <<"a","n","y">>

\* `professor_${professorName.toLowerCase().replace(/\s+/g, '_')}`
professorCacheKey(professorName) ==
    <<"p","r","o","f","e","s","s","o","r","_">> \o replaceSpaceRuns(toLowerCase(professorName), <<"_">>)

analyticsCacheKey(professorName) ==
    <<"a","n","a","l","y","t","i","c","s","_">> \o replaceSpaceRuns(toLowerCase(professorName), <<"_">>)

\* `search_${query}_${school || 'any'}_${department || 'any'}_${minRating || 'any'}`
\* an absent string is <<>>, an absent (or zero) minRating is 0
searchCacheKey(query, school, department, minRating) ==
    <<"s","e","a","r","c","h","_">> \o query \o <<"_">> \o (IF school = <<>> THEN sAny ELSE school)
            \o <<"_">> \o (IF department = <<>> THEN sAny ELSE department)
            \o <<"_">> \o (IF minRating = 0 THEN sAny ELSE NatToStr(minRating))

\* NodeCache.get / set
cacheGet(ch, key) == IF key \in DOMAIN ch THEN ch[key] ELSE Undefined
cacheSet(ch, key, value) == [k \in DOMAIN ch \cup {key} |-> IF k = key THEN value ELSE ch[k]]
cacheDel(ch, key) == [k \in DOMAIN ch \ {key} |-> ch[k]]

sUnknownDept == <<"U","n","k","n","o","w","n">>

extractDepartmentFromCourses(crs) ==
    IF Len(crs) = 0 THEN sUnknownDept
    ELSE IF UpperPrefix(crs[1]) = <<>> THEN sUnknownDept ELSE UpperPrefix(crs[1])

\* faulty variant of assessDataQuality: 5 points suffice for "high"
assessDataQualityLowBar(basicData, apiData) ==
    LET mentions == IF apiData.reddit_sentiment.t = "object"
                    THEN apiData.reddit_sentiment.mention_count ELSE 0
        score == (IF basicData.total_reviews >= 5 THEN 2
                  ELSE IF basicData.total_reviews >= 2 THEN 1 ELSE 0)
               + (IF apiData.num_ratings >= 20 THEN 3
                  ELSE IF apiData.num_ratings >= 5 THEN 2
                  ELSE IF apiData.num_ratings >= 1 THEN 1 ELSE 0)
               + (IF mentions >= 5 THEN 2 ELSE IF mentions >= 1 THEN 1 ELSE 0)
    IN  IF score >= 5 THEN "high" ELSE IF score >= 3 THEN "medium" ELSE "low"

assessDataQuality(basicData, apiData) ==
    LET mentions == IF apiData.reddit_sentiment.t = "object"
                    THEN apiData.reddit_sentiment.mention_count ELSE 0
        score == (IF basicData.total_reviews >= 5 THEN 2
                  ELSE IF basicData.total_reviews >= 2 THEN 1 ELSE 0)
               + (IF apiData.num_ratings >= 20 THEN 3
                  ELSE IF apiData.num_ratings >= 5 THEN 2
                  ELSE IF apiData.num_ratings >= 1 THEN 1 ELSE 0)
               + (IF mentions >= 5 THEN 2 ELSE IF mentions >= 1 THEN 1 ELSE 0)
    IN  IF score >= 6 THEN "high" ELSE IF score >= 3 THEN "medium" ELSE "low"

getDataSources(apiData) ==
    <<"UCR Course Reviews">>
    \o (IF apiData.rating > 0 THEN <<"RateMyProfessor">> ELSE <<>>)
    \o (IF apiData.reddit_sentiment.t = "object" THEN <<"Reddit Sentiment Analysis">> ELSE <<>>)

\* faulty variant of CombinedRating10000: the rating weighs 0.2 and the
\* inverted difficulty 0.7
CombinedRating10000WeightsSwapped(basicData, apiData) ==
    LET sentiment == IF apiData.reddit_sentiment.t = "object"
                     THEN apiData.reddit_sentiment.score ELSE 0
        inverse200 == IF basicData.average_difficulty > 0
                      THEN 1100 - basicData.average_difficulty ELSE 0
    IN  20 * apiData.rating + 35 * inverse200 + 25 * (sentiment + 100)

\* combinedRating of combineData, times 10000:
\* rmpRating * 0.7 + ucrDifficultyInverse * 0.2 + (redditSentiment + 1) * 2.5 * 0.1
CombinedRating10000(basicData, apiData) ==
    LET sentiment == IF apiData.reddit_sentiment.t = "object"
                     THEN apiData.reddit_sentiment.score ELSE 0
        inverse200 == IF basicData.average_difficulty > 0
                      THEN 1100 - basicData.average_difficulty ELSE 0
    IN  70 * apiData.rating + 10 * inverse200 + 25 * (sentiment + 100)

\* faulty variant of calculateRecommendationScore: no penalty for a high
\* external difficulty
calculateRecommendationScoreNoPenalty(combined10000, apiData) ==
    LET sentiment == IF apiData.reddit_sentiment.t = "object"
                     THEN apiData.reddit_sentiment.score ELSE 0
        bonus == (IF apiData.num_ratings >= 20 THEN 10
                  ELSE IF apiData.num_ratings >= 10 THEN 5 ELSE 0)
               + (IF sentiment > 20 THEN 5 ELSE 0)
        rounded == (combined10000 + 500 * bonus + 250) \div 500
    IN  10 * Max(0, Min(100, rounded))

\* faulty variant of calculateRecommendationScore: Math.round(score) alone
calculateRecommendationScoreUnclamped(combined10000, apiData) ==
    LET sentiment == IF apiData.reddit_sentiment.t = "object"
                     THEN apiData.reddit_sentiment.score ELSE 0
        bonus == (IF apiData.num_ratings >= 20 THEN 10
                  ELSE IF apiData.num_ratings >= 10 THEN 5 ELSE 0)
               + (IF sentiment > 20 THEN 5 ELSE 0)
               - (IF apiData.difficulty > 400 THEN 10 ELSE 0)
    IN  10 * ((combined10000 + 500 * bonus + 250) \div 500)

\* Math.max(0, Math.min(100, Math.round(score))), in tenths
calculateRecommendationScore(combined10000, apiData) ==
    LET sentiment == IF apiData.reddit_sentiment.t = "object"
                     THEN apiData.reddit_sentiment.score ELSE 0
        bonus == (IF apiData.num_ratings >= 20 THEN 10
                  ELSE IF apiData.num_ratings >= 10 THEN 5 ELSE 0)
               + (IF sentiment > 20 THEN 5 ELSE 0)
               - (IF apiData.difficulty > 400 THEN 10 ELSE 0)
        rounded == (combined10000 + 500 * bonus + 250) \div 500
    IN  10 * Max(0, Min(100, rounded))

combineData(basicData, apiData) ==
    [t |-> "object",
     name |-> basicData.name,
     courses_taught |-> basicData.courses_taught,
     average_difficulty |-> basicData.average_difficulty,
     total_reviews |-> basicData.total_reviews,
     department |-> IF apiData.department # <<>> THEN apiData.department
                    ELSE extractDepartmentFromCourses(basicData.courses_taught),
     rmp_rating |-> apiData.rating,
     rmp_difficulty |-> apiData.difficulty,
     rmp_num_ratings |-> apiData.num_ratings,
     reddit_sentiment |-> apiData.reddit_sentiment,
     data_quality |-> assessDataQuality(basicData, apiData),
     data_sources |-> getDataSources(apiData),
     combined_rating |-> 10 * ((CombinedRating10000(basicData, apiData) + 50) \div 100),
     recommendation_score |->
        calculateRecommendationScore(CombinedRating10000(basicData, apiData), apiData)]

fallbackToBasicData(basicData) ==
    [t |-> "object",
     name |-> basicData.name,
     courses_taught |-> basicData.courses_taught,
     average_difficulty |-> basicData.average_difficulty,
     total_reviews |-> basicData.total_reviews,
     department |-> extractDepartmentFromCourses(basicData.courses_taught),
     rmp_rating |-> 0,
     rmp_difficulty |-> 0,
     rmp_num_ratings |-> 0,
     reddit_sentiment |-> JsonNull,
     data_quality |-> "low",
     data_sources |-> <<"UCR Course Reviews">>,
     combined_rating |-> IF basicData.average_difficulty > 0
                         THEN 5 * (1100 - basicData.average_difficulty) ELSE 0,
     recommendation_score |-> Max(0, Min(1000, 1100 - basicData.average_difficulty))]

\* a JSON array is [t |-> "array", items |-> <<...>>]
Array(items) == [t |-> "array", items |-> items]

EmptySearch == [t |-> "object", professors |-> Array(<<>>), total_results |-> 0]

\* A service call is [op, name, basic, school, department, minRating]; the
\* result of a step of it is [result, thrown, fetch, ch]: the value returned
\* (when fetch is FALSE), whether it was thrown instead, whether an external
\* request is issued instead, and the cache afterwards.
Returned(value, ch) == [result |-> value, thrown |-> FALSE, fetch |-> FALSE, ch |-> ch]
Thrown(ch) == [result |-> Undefined, thrown |-> TRUE, fetch |-> FALSE, ch |-> ch]
Fetching(ch) == [result |-> Undefined, thrown |-> FALSE, fetch |-> TRUE, ch |-> ch]

callCacheKey(call) ==
    IF call.op = "getEnhancedProfessor" THEN professorCacheKey(call.name)
    ELSE IF call.op = "getProfessorAnalytics" THEN analyticsCacheKey(call.name)
    ELSE searchCacheKey(call.name, call.school, call.department, call.minRating)

\* faulty variant of getEnhancedProfessorStart: the flag is not consulted
getEnhancedProfessorStartNoFlag(enabled, ch, call) ==
    IF Truthy(cacheGet(ch, professorCacheKey(call.name)))
    THEN Returned(cacheGet(ch, professorCacheKey(call.name)), ch)
    ELSE Fetching(ch)

\* getEnhancedProfessor up to its fetch
getEnhancedProfessorStart(enabled, ch, call) ==
    IF ~enabled THEN Returned(fallbackToBasicData(call.basic), ch)
    ELSE IF Truthy(cacheGet(ch, professorCacheKey(call.name)))
         THEN Returned(cacheGet(ch, professorCacheKey(call.name)), ch)
         ELSE Fetching(ch)

\* faulty variant of getEnhancedProfessorFinish: the catch block rethrows
getEnhancedProfessorFinishRethrows(ch, call, outcome) ==
    IF outcome.kind = "nonok" THEN Returned(fallbackToBasicData(call.basic), ch)
    ELSE IF outcome.kind = "json" /\ outcome.payload # JsonNull
         THEN Returned(combineData(call.basic, outcome.payload),
                       cacheSet(ch, professorCacheKey(call.name),
                                combineData(call.basic, outcome.payload)))
         ELSE Thrown(ch)

\* getEnhancedProfessor after its fetch; outcome is [kind, payload] with kind
\* "nonok" (response.ok false), "abort" (the timer fired), "network" (fetch
\* rejected), "bodyerror" (response.json() rejected) or "json"
getEnhancedProfessorFinish(ch, call, outcome) ==
    IF outcome.kind = "nonok" THEN Returned(fallbackToBasicData(call.basic), ch)
    ELSE IF outcome.kind = "json" /\ outcome.payload # JsonNull
         THEN LET enhanced == combineData(call.basic, outcome.payload)
              IN  Returned(enhanced, cacheSet(ch, professorCacheKey(call.name), enhanced))
         \* catch block: abort, network error, unreadable body, or the
         \* TypeError combineData raises on a null payload
         ELSE Returned(fallbackToBasicData(call.basic), ch)

searchProfessorsStart(enabled, ch, call) ==
    IF ~enabled THEN Returned(EmptySearch, ch)
    ELSE IF Truthy(cacheGet(ch, callCacheKey(call)))
         THEN Returned(cacheGet(ch, callCacheKey(call)), ch)
         ELSE Fetching(ch)

\* faulty variant of searchProfessorsFinish: the catch block rethrows
searchProfessorsFinishRethrows(ch, call, outcome) ==
    IF outcome.kind = "nonok" THEN Returned(EmptySearch, ch)
    ELSE IF outcome.kind = "json" /\ outcome.payload.t = "object"
         THEN Returned([t |-> "object",
                        professors |-> IF outcome.payload.professors.t \in {"null", "undefined"}
                                       THEN Array(<<>>)
                                       ELSE outcome.payload.professors,
                        total_results |-> outcome.payload.total_results],
                       ch)
         ELSE Thrown(ch)

\* searchProfessors after its fetch: a non-success status and the catch
\* block both return the empty result (a null body raises a TypeError at
\* searchData.professors)
searchProfessorsFinish(ch, call, outcome) ==
    IF outcome.kind = "nonok" THEN Returned(EmptySearch, ch)
    ELSE IF outcome.kind = "json" /\ outcome.payload.t = "object"
         THEN LET results == [t |-> "object",
                              \* searchData.professors || []
                              professors |-> IF outcome.payload.professors.t \in {"null", "undefined"}
                                             THEN Array(<<>>)
                                             ELSE outcome.payload.professors,
                              total_results |-> outcome.payload.total_results]
              IN  Returned(results, cacheSet(ch, callCacheKey(call), results))
         ELSE Returned(EmptySearch, ch)

\* faulty variant of getProfessorAnalyticsStart: the cache is not consulted
getProfessorAnalyticsStartNoCache(enabled, ch, call) ==
    IF ~enabled THEN Returned(JsonNull, ch) ELSE Fetching(ch)

getProfessorAnalyticsStart(enabled, ch, call) ==
    IF ~enabled THEN Returned(JsonNull, ch)
    ELSE IF Truthy(cacheGet(ch, analyticsCacheKey(call.name)))
         THEN Returned(cacheGet(ch, analyticsCacheKey(call.name)), ch)
         ELSE Fetching(ch)

getProfessorAnalyticsFinish(ch, call, outcome) ==
    IF outcome.kind = "json"
    THEN Returned(outcome.payload, cacheSet(ch, analyticsCacheKey(call.name), outcome.payload))
    ELSE Returned(JsonNull, ch)

healthCheckStart(enabled, ch, call) ==
    IF ~enabled THEN Returned([t |-> "object", status |-> "unavailable"], ch)
    ELSE Fetching(ch)

\* healthCheck reads no body: outcome "ok" is a response with response.ok
healthCheckFinish(ch, call, outcome) ==
    IF outcome.kind = "ok" THEN Returned([t |-> "object", status |-> "healthy"], ch)
    ELSE IF outcome.kind = "nonok" THEN Returned([t |-> "object", status |-> "degraded"], ch)
    ELSE Returned([t |-> "object", status |-> "unavailable"], ch)

ServiceStart(enabled, ch, call) ==
    IF call.op = "getEnhancedProfessor" THEN getEnhancedProfessorStart(enabled, ch, call)
    ELSE IF call.op = "searchProfessors" THEN searchProfessorsStart(enabled, ch, call)
    ELSE IF call.op = "getProfessorAnalytics" THEN getProfessorAnalyticsStart(enabled, ch, call)
    ELSE healthCheckStart(enabled, ch, call)

ServiceFinish(ch, call, outcome) ==
    IF call.op = "getEnhancedProfessor" THEN getEnhancedProfessorFinish(ch, call, outcome)
    ELSE IF call.op = "searchProfessors" THEN searchProfessorsFinish(ch, call, outcome)
    ELSE IF call.op = "getProfessorAnalytics" THEN getProfessorAnalyticsFinish(ch, call, outcome)
    ELSE healthCheckFinish(ch, call, outcome)


\* ================================================= DataService read operations
\* loadData run to completion inside one macrotask (an HTTP handler runs
\* with an empty microtask queue, so nothing interleaves with it): the
\* fields afterwards, whether it threw, and what happened to promise p
loadDataRun(d, pstates, ok, rawData, p) ==
    LET b == loadDataBranch(d) IN
    IF b = "cached" THEN [d |-> d, thrown |-> FALSE, read |-> FALSE]
    ELSE IF b = "wait"
         THEN [d |-> loadDataResume(d, FALSE, pstates[d.loadingPromise]),
               thrown |-> pstates[d.loadingPromise] = "rejected", read |-> FALSE]
         ELSE IF ok
              THEN [d |-> loadDataResume(performDataLoadResume(loadDataStart(d, ok, rawData, p)),
                                         TRUE, "fulfilled"),
                    thrown |-> FALSE, read |-> TRUE]
              ELSE [d |-> loadDataResume(loadDataStart(d, ok, rawData, p), TRUE, "rejected"),
                    thrown |-> TRUE, read |-> TRUE]

\* find(...) || null
getCourse(d, courseCode) ==
    LET hit == {i \in 1..Len(d.courses) : d.courses[i].course_code = toUpperCase(courseCode)}
    IN  IF hit = {} THEN JsonNull ELSE d.courses[FirstIndex(hit)]

\* faulty variant of searchCourses: a course as difficult as maxDifficulty
\* is left out
searchCoursesStrictlyBelow(d, query, department, maxDifficulty) ==
    LET f1 == IF query # <<>>
              THEN SelectSeq(d.courses, LAMBDA c : \/ includes(c.course_code, toUpperCase(query))
                                                   \/ includes(c.department, toUpperCase(query)))
              ELSE d.courses
        f2 == IF department # <<>>
              THEN SelectSeq(f1, LAMBDA c : c.department = toUpperCase(department))
              ELSE f1
    IN  IF maxDifficulty.def
        THEN SelectSeq(f2, LAMBDA c : ~maxDifficulty.nan /\ c.average_difficulty < maxDifficulty.v)
        ELSE f2

\* maxDifficulty is [def, nan, v] with v in hundredths
searchCourses(d, query, department, maxDifficulty) ==
    LET f1 == IF query # <<>>
              THEN SelectSeq(d.courses, LAMBDA c : \/ includes(c.course_code, toUpperCase(query))
                                                   \/ includes(c.department, toUpperCase(query)))
              ELSE d.courses
        f2 == IF department # <<>>
              THEN SelectSeq(f1, LAMBDA c : c.department = toUpperCase(department))
              ELSE f1
    IN  IF maxDifficulty.def
        THEN SelectSeq(f2, LAMBDA c : ~maxDifficulty.nan /\ c.average_difficulty <= maxDifficulty.v)
        ELSE f2

getCourseReviews(d, courseCode) ==
    SelectSeq(d.reviews, LAMBDA r : r.course_code = toUpperCase(courseCode))

getProfessor(d, professorName) ==
    LET hit == {i \in 1..Len(d.professors) :
                  includes(toLowerCase(d.professors[i].name), toLowerCase(professorName))}
    IN  IF hit = {} THEN JsonNull ELSE d.professors[FirstIndex(hit)]

\* ================================================================ controllers
\* A response is the status passed to res.status (200 when res.json is used
\* alone) and the JSON body: the value of success ("absent" when the body
\* has no such field), the names of the fields of the body, the value of
\* code (0 when absent) and the payload.
ApiResponse(status, data, withMessage) ==
    [status |-> status, success |-> "true",
     fields |-> {"success", "timestamp"}
                \cup (IF data.t = "undefined" THEN {} ELSE {"data"})
                \cup (IF withMessage THEN {"message"} ELSE {}),
     code |-> 0, data |-> data]

ApiError(code) ==
    [status |-> code, success |-> "false",
     fields |-> {"success", "error", "message", "timestamp", "code"},
     code |-> code, data |-> Undefined]

\* a step of a handler body: it sends a response, suspends in a service
\* call, or throws
Respond(resp) == [kind |-> "respond", resp |-> resp]
Throw == [kind |-> "throw"]
Suspend(call, todo, acc) == [kind |-> "call", call |-> call, todo |-> todo, acc |-> acc]

\* Math.min(parseInt(limit) || dflt, max) where an absent limit takes the
\* default string of the destructuring
limitNum(limit, dflt, max) ==
    LET n == IF limit = <<>> THEN [nan |-> FALSE, v |-> dflt] ELSE parseInt(limit)
        m == IF n.nan \/ n.v = 0 THEN dflt ELSE n.v
    IN  Min(m, max)

\* max_difficulty ? parseFloat(max_difficulty) : undefined, for whole numbers
parseMaxDifficulty(s) ==
    IF s = <<>> THEN [def |-> FALSE, nan |-> FALSE, v |-> 0]
    ELSE [def |-> TRUE, nan |-> parseInt(s).nan, v |-> 100 * parseInt(s).v]

\* min_rating ? parseFloat(min_rating) : undefined, for whole numbers; the
\* service only tests it for truthiness and prints it
parseMinRating(s) ==
    IF s = <<>> \/ parseInt(s).nan \/ parseInt(s).v < 0 THEN 0 ELSE parseInt(s).v

SearchResponse(crs, total) == [t |-> "object", courses |-> crs, total_results |-> total]

\* CourseController.searchCourses, after the Store answered
searchCoursesBody(d, args) ==
    LET found == searchCourses(d, args.q, args.department, parseMaxDifficulty(args.max_difficulty))
        limited == slice0(sortByTotalReviewsDesc(found), limitNum(args.limit, 20, 100))
    IN  Respond(ApiResponse(200, SearchResponse(limited, Len(found)), FALSE))

\* faulty variant of sortEasy: the list is left in the Store's order
sortEasyUnsorted(s) == s

\* sort by average_difficulty ascending, then total_reviews descending
sortEasy(s) ==
    LET RECURSIVE srt(_)
        srt(x) ==
          IF Len(x) <= 1 THEN x
          ELSE LET sorted == srt(SubSeq(x, 1, Len(x) - 1))
                   e == x[Len(x)]
                   k == Cardinality({i \in 1..Len(sorted) :
                          \/ sorted[i].average_difficulty < e.average_difficulty
                          \/ /\ sorted[i].average_difficulty = e.average_difficulty
                             /\ sorted[i].total_reviews >= e.total_reviews})
               IN  SubSeq(sorted, 1, k) \o <<e>> \o SubSeq(sorted, k + 1, Len(sorted))
    IN  srt(s)

getEasyCoursesBody(d, args) ==
    LET found == searchCourses(d, <<>>, args.department, [def |-> TRUE, nan |-> FALSE, v |-> 400])
        easy == slice0(sortEasy(SelectSeq(found, LAMBDA c : c.total_reviews >= 2)),
                       limitNum(args.limit, 10, 50))
    IN  Respond(ApiResponse(200, SearchResponse(easy, Len(easy)), TRUE))

\* CourseController.getAllCourses sorts the array the Store returned, which
\* is the Store's own courses array
getAllCoursesSorted(d) == sortByTotalReviewsDesc(d.courses)

getAllCoursesBody(d, args) ==
    LET allCourses == getAllCoursesSorted(d)
    IN  Respond(ApiResponse(200, SearchResponse(slice0(allCourses, limitNum(args.limit, 50, 200)),
                                                Len(allCourses)), FALSE))

\* [...new Set(reviews.filter(r => r.professor_name).map(...))].slice(0, 3)
professorNamesOf(revs) ==
    LET named == SelectSeq(revs, LAMBDA r : r.professor_name # NoName)
    IN  slice0(InsertionOrder([i \in 1..Len(named) |-> named[i].professor_name]), 3)

RECURSIVE resolveProfessors(_, _)
resolveProfessors(d, names) ==
    IF names = <<>> THEN <<>>
    ELSE (IF getProfessor(d, Head(names)) # JsonNull
          THEN <<getProfessor(d, Head(names))>> ELSE <<>>)
         \o resolveProfessors(d, Tail(names))

CourseDetail(course, revs, profs) ==
    [t |-> "object", course |-> course, recent_reviews |-> slice0(revs, 5), professors |-> profs]

getCourseDetailsBody(d, args) ==
    IF args.code = <<>> THEN Respond(ApiError(400))
    ELSE IF getCourse(d, args.code) = JsonNull THEN Respond(ApiError(404))
    ELSE LET revs == getCourseReviews(d, args.code)
         IN  Respond(ApiResponse(200,
                 CourseDetail(getCourse(d, args.code), revs,
                              resolveProfessors(d, professorNamesOf(revs))), FALSE))

EnhancedCall(name, basic) ==
    [op |-> "getEnhancedProfessor", name |-> name, basic |-> basic,
     school |-> <<>>, department |-> <<>>, minRating |-> 0]
SearchCall(query, school, department, minRating) ==
    [op |-> "searchProfessors", name |-> query, basic |-> Undefined,
     school |-> school, department |-> department, minRating |-> minRating]
AnalyticsCall(name) ==
    [op |-> "getProfessorAnalytics", name |-> name, basic |-> Undefined,
     school |-> <<>>, department |-> <<>>, minRating |-> 0]
HealthCall ==
    [op |-> "healthCheck", name |-> <<>>, basic |-> Undefined,
     school |-> <<>>, department |-> <<>>, minRating |-> 0]
NoCall ==
    [op |-> "none", name |-> <<>>, basic |-> Undefined,
     school |-> <<>>, department |-> <<>>, minRating |-> 0]

\* the professor loop of getEnhancedCourseDetails from the names still to
\* do, with the enhanced professors pushed so far
RECURSIVE enhancedLoop(_, _, _, _, _, _)
enhancedLoop(enabled, ch, d, args, todo, acc) ==
    IF todo = <<>>
    THEN Respond(ApiResponse(200,
            CourseDetail(getCourse(d, args.code), getCourseReviews(d, args.code), acc), TRUE))
    ELSE LET basicProf == getProfessor(d, Head(todo))
             r == getEnhancedProfessorStart(enabled, ch, EnhancedCall(Head(todo), basicProf))
         IN  IF basicProf = JsonNull
             THEN enhancedLoop(enabled, ch, d, args, Tail(todo), acc)
             ELSE IF r.fetch
                  THEN Suspend(EnhancedCall(Head(todo), basicProf), Tail(todo), acc)
                  ELSE enhancedLoop(enabled, ch, d, args, Tail(todo), Append(acc, r.result))

getEnhancedCourseDetailsBody(enabled, ch, d, args) ==
    IF args.code = <<>> THEN Respond(ApiError(400))
    ELSE IF getCourse(d, args.code) = JsonNull THEN Respond(ApiError(404))
    ELSE enhancedLoop(enabled, ch, d, args,
                      professorNamesOf(getCourseReviews(d, args.code)), <<>>)

\* ProfessorController.searchProfessors after the service answered
searchProfessorsAfter(args, searchResults) ==
    IF searchResults.professors.t # "array" THEN Throw
    ELSE Respond(ApiResponse(200,
            [t |-> "object",
             professors |-> slice0(searchResults.professors.items, limitNum(args.limit, 10, 50)),
             total_results |-> searchResults.total_results], FALSE))

\* getProfessorDetails after searchProfessors(name) answered (lines 104-125)
\* faulty variant of getProfessorDetailsAfterSearch: an empty result is
\* answered like a found professor
getProfessorDetailsAfterSearchNo404(searchResults) ==
    IF searchResults.professors.t = "array" /\ Len(searchResults.professors.items) > 0
    THEN Respond(ApiResponse(200, searchResults.professors.items[1], FALSE))
    ELSE Respond(ApiResponse(200, Undefined, FALSE))

getProfessorDetailsAfterSearch(searchResults) ==
    IF searchResults.professors.t = "array" /\ Len(searchResults.professors.items) = 0
    THEN Respond(ApiError(404))
    ELSE IF searchResults.professors.t = "array"
         THEN Respond(ApiResponse(200, searchResults.professors.items[1], FALSE))
         ELSE Respond(ApiResponse(200, Undefined, FALSE))

getProfessorAnalyticsAfter(analytics) ==
    IF ~Truthy(analytics) THEN Respond(ApiError(404))
    ELSE Respond(ApiResponse(200, analytics, FALSE))

healthCheckAfter(healthStatus) ==
    Respond(ApiResponse(IF healthStatus.status = "unavailable" THEN 503 ELSE 200,
                        healthStatus, FALSE))

\* true when name is missing or blank
BlankName(name) == name = <<>> \/ trim(name) = <<>>

\* the handler body from the arrival of the request, after the Store load
\* it needs (if any) has run: d is the Store then, loadThrew whether the
\* load threw
handlerBegin(handler, enabled, ch, d, loadThrew, args) ==
    IF handler = "searchProfessors"
    THEN IF args.q = <<>> THEN Respond(ApiError(400))
         ELSE Suspend(SearchCall(args.q, args.school, args.department,
                                 parseMinRating(args.min_rating)), <<>>, <<>>)
    ELSE IF handler = "getProfessorAnalytics"
    THEN IF BlankName(args.name) THEN Respond(ApiError(400))
         ELSE Suspend(AnalyticsCall(args.name), <<>>, <<>>)
    ELSE IF handler = "healthCheck" THEN Suspend(HealthCall, <<>>, <<>>)
    ELSE IF handler = "getProfessorDetails"
    THEN IF BlankName(args.name) THEN Respond(ApiError(400))
         ELSE IF loadThrew THEN Throw
         ELSE IF getProfessor(d, args.name) = JsonNull
              THEN Suspend(SearchCall(args.name, <<>>, <<>>, 0), <<>>, <<>>)
              ELSE Suspend(EnhancedCall(args.name, getProfessor(d, args.name)), <<>>, <<>>)
    ELSE IF handler \in {"getCourseDetails", "getEnhancedCourseDetails"} /\ args.code = <<>>
    THEN Respond(ApiError(400))
    ELSE IF loadThrew THEN Throw
    ELSE IF handler = "searchCourses" THEN searchCoursesBody(d, args)
    ELSE IF handler = "getEasyCourses" THEN getEasyCoursesBody(d, args)
    ELSE IF handler = "getAllCourses" THEN getAllCoursesBody(d, args)
    ELSE IF handler = "getCourseDetails" THEN getCourseDetailsBody(d, args)
    ELSE getEnhancedCourseDetailsBody(enabled, ch, d, args)

\* whether the handler calls the DataService before anything else happens
handlerLoads(handler, args) ==
    \/ handler \in {"searchCourses", "getEasyCourses", "getAllCourses"}
    \/ handler \in {"getCourseDetails", "getEnhancedCourseDetails"} /\ args.code # <<>>
    \/ handler = "getProfessorDetails" /\ ~BlankName(args.name)

\* the handler body resumed with the value a service call returned
handlerAfterCall(handler, enabled, ch, d, args, call, todo, acc, result) ==
    IF handler = "searchProfessors" THEN searchProfessorsAfter(args, result)
    ELSE IF handler = "getProfessorAnalytics" THEN getProfessorAnalyticsAfter(result)
    ELSE IF handler = "healthCheck" THEN healthCheckAfter(result)
    ELSE IF handler = "getProfessorDetails"
    THEN IF call.op = "searchProfessors" THEN getProfessorDetailsAfterSearch(result)
         ELSE Respond(ApiResponse(200, result, FALSE))
    ELSE enhancedLoop(enabled, ch, d, args, todo, Append(acc, result))

\* faulty variant of handlerCatch: the exception is not caught
handlerCatchRethrows(step) == step

\* the catch block every handler ends with
handlerCatch(step) == IF step.kind = "throw" THEN Respond(ApiError(500)) ELSE step


\* the Store fields after the synchronous part of a handler that got the
\* Store's answer: getAllCourses sorts the Store's array in place
handlerStore(handler, d, loadThrew) ==
    IF handler = "getAllCourses" /\ ~loadThrew
    THEN [d EXCEPT !.courses = getAllCoursesSorted(d)]
    ELSE d

\* a handler runs on, through service calls that return without an external
\* request, until it responds, throws or suspends in a fetch
RECURSIVE runHandler(_, _, _, _, _, _)
runHandler(handler, enabled, ch, d, args, step) ==
    IF step.kind # "call" \/ ServiceStart(enabled, ch, step.call).fetch THEN step
    ELSE runHandler(handler, enabled, ch, d, args,
            IF handler = "direct"
            THEN Respond(ServiceStart(enabled, ch, step.call).result)
            ELSE handlerCatch(handlerAfterCall(handler, enabled, ch, d, args, step.call,
                     step.todo, step.acc, ServiceStart(enabled, ch, step.call).result)))

\* ------------------------------------------------------- requests in progress
Requests == 1..NumReq

NoArgs ==
    [code |-> <<>>, name |-> <<>>, q |-> <<>>, department |-> <<>>, school |-> <<>>,
     limit |-> <<>>, max_difficulty |-> <<>>, min_rating |-> <<>>]
NoResp == [status |-> 0, success |-> "absent", fields |-> {}, code |-> 0, data |-> Undefined]

NoOutcome == [kind |-> "none", payload |-> Undefined]

IdleReq ==
    [pc |-> "idle", handler |-> "none", args |-> NoArgs, call |-> NoCall,
     todo |-> <<>>, acc |-> <<>>, fetches |-> 0, cached |-> Undefined]

NoEvent ==
    [kind |-> "none", handler |-> "none", args |-> NoArgs, call |-> NoCall,
     resp |-> NoResp, result |-> Undefined, sent |-> 0, escaped |-> FALSE,
     fetches |-> 0, outcome |-> NoOutcome, cached |-> Undefined]

\* a new request takes the first free slot
FreeSlot(r) == req[r].pc = "idle" /\ \A q \in 1..(r - 1) : req[q].pc # "idle"

\* the step a handler body (or a direct service call) ended with takes
\* effect on request r: it stays suspended in a fetch, or it is over and
\* what it delivered is recorded
Proceed(r, handler, args, step, info) ==
    IF step.kind = "call"
    THEN /\ req' = [req EXCEPT ![r] =
                      [pc |-> "fetch", handler |-> handler, args |-> args, call |-> step.call,
                       todo |-> step.todo, acc |-> step.acc, fetches |-> info.fetches + 1,
                       cached |-> info.cached]]
         /\ event' = NoEvent
    ELSE /\ req' = [req EXCEPT ![r] = IdleReq]
         /\ event' =
              [kind |-> IF handler = "direct" THEN "return" ELSE "handler",
               handler |-> handler, args |-> args, call |-> info.call,
               resp |-> IF step.kind = "respond" /\ handler # "direct" THEN step.resp ELSE NoResp,
               result |-> IF step.kind = "respond" /\ handler = "direct" THEN step.resp ELSE Undefined,
               sent |-> IF step.kind = "respond" /\ handler # "direct" THEN 1 ELSE 0,
               escaped |-> step.kind = "throw",
               fetches |-> info.fetches, outcome |-> info.outcome, cached |-> info.cached]

\* an HTTP request reaches one of the controller handlers
HttpRequest(r, handler, args) ==
    /\ mq = <<>>
    /\ FreeSlot(r)
    /\ \E run \in {IF handlerLoads(handler, args)
                   THEN loadDataRun(DS, promiseState, fileOk, csv, readCount + 1)
                   ELSE [d |-> DS, thrown |-> FALSE, read |-> FALSE]} :
       \E step \in {runHandler(handler, isEnabled, cache, run.d, args,
                       handlerCatch(handlerBegin(handler, isEnabled, cache, run.d, run.thrown, args)))} :
          /\ run.read => readCount < MaxLoads
          /\ SetDS(handlerStore(handler, run.d, run.thrown))
          /\ readCount' = IF run.read THEN readCount + 1 ELSE readCount
          /\ parseCount' = IF run.read /\ ~run.thrown THEN parseCount + 1 ELSE parseCount
          /\ promiseState' = IF run.read
                             THEN [promiseState EXCEPT ![readCount + 1] =
                                      IF run.thrown THEN "rejected" ELSE "fulfilled"]
                             ELSE promiseState
          /\ Proceed(r, handler, args, step,
                     [fetches |-> 0, cached |-> Undefined, outcome |-> NoOutcome, call |-> NoCall])
    /\ UNCHANGED <<waiters, csv, fileOk>>
    /\ UNCHANGED svcVars
    /\ UNCHANGED callerVars

\* a caller invokes an operation of the ProfessorService directly
ServiceCall(r, call) ==
    /\ FreeSlot(r)
    /\ \E step \in {runHandler("direct", isEnabled, cache, DS, NoArgs, Suspend(call, <<>>, <<>>))} :
          Proceed(r, "direct", NoArgs, step,
                  [fetches |-> 0, cached |-> cacheGet(cache, callCacheKey(call)),
                   outcome |-> NoOutcome, call |-> call])
    /\ UNCHANGED svcVars
    /\ UNCHANGED storeVars
    /\ UNCHANGED envVars
    /\ UNCHANGED callerVars

\* the service call request r is suspended in ends with outcome: the
\* service returns and the handler runs on
Finish(r, outcome) ==
    \E rs \in {ServiceFinish(cache, req[r].call, outcome)} :
    \E step \in {IF req[r].handler = "direct"
                 THEN (IF rs.thrown THEN Throw ELSE Respond(rs.result))
                 ELSE runHandler(req[r].handler, isEnabled, rs.ch, DS, req[r].args,
                         handlerCatch(IF rs.thrown THEN Throw
                                      ELSE handlerAfterCall(req[r].handler, isEnabled, rs.ch, DS,
                                               req[r].args, req[r].call, req[r].todo, req[r].acc,
                                               rs.result)))} :
       /\ cache' = rs.ch
       /\ Proceed(r, req[r].handler, req[r].args, step,
                  [fetches |-> req[r].fetches, cached |-> req[r].cached, outcome |-> outcome,
                   call |-> IF req[r].handler = "direct" THEN req[r].call ELSE NoCall])
       /\ UNCHANGED <<isEnabled, started>>
       /\ UNCHANGED storeVars
       /\ UNCHANGED envVars
       /\ UNCHANGED callerVars

\* ------------------------------------------------ the external service
Outcome(kind, payload) == [kind |-> kind, payload |-> payload]

Sentiment(score, mentions) == [t |-> "object", score |-> score, mention_count |-> mentions]

\* bodies the external service can answer GET /api/professor with: null, an
\* object without any of the fields combineData reads (each read then takes
\* its "|| 0" default, the department its "||" alternative), a full record
ProfessorPayloads ==
    { JsonNull,
      [t |-> "object", rating |-> 0, difficulty |-> 0, num_ratings |-> 0,
       department |-> <<>>, reddit_sentiment |-> JsonNull],
      [t |-> "object", rating |-> 400, difficulty |-> 450, num_ratings |-> 25,
       department |-> <<"C","S">>, reddit_sentiment |-> Sentiment(30, 6)] }

FoundProfessor(i) == [t |-> "object", id |-> i]

\* bodies of GET /api/search: null, professors not an array, and a list
\* longer than the controller's maximum
SearchPayloads ==
    { JsonNull,
      [t |-> "object", professors |-> [t |-> "object"], total_results |-> 1],
      [t |-> "object", professors |-> Array([i \in 1..BigResult |-> FoundProfessor(i)]),
       total_results |-> BigResult] }

\* bodies of GET /api/analyze
AnalyticsPayloads == { JsonNull, [t |-> "object", recommendation_score |-> 80] }

\* the body of GET /api/search when no professor matches the query
NoneFound == [t |-> "object", professors |-> Array(<<>>), total_results |-> 0]

PayloadsFor(op) ==
    IF op = "getEnhancedProfessor" THEN ProfessorPayloads
    ELSE IF op = "searchProfessors" THEN SearchPayloads \cup {NoneFound}
    ELSE AnalyticsPayloads

\* the response headers arrive before the timer fires: clearTimeout runs
FetchResponse(r, ok) ==
    /\ req[r].pc = "fetch"
    /\ IF req[r].call.op = "healthCheck"
       THEN Finish(r, Outcome(IF ok THEN "ok" ELSE "nonok", Undefined))
       ELSE IF ~ok
            THEN Finish(r, Outcome("nonok", Undefined))
            ELSE /\ req' = [req EXCEPT ![r].pc = "body"]
                 /\ event' = NoEvent
                 /\ UNCHANGED svcVars
                 /\ UNCHANGED storeVars
                 /\ UNCHANGED envVars
                 /\ UNCHANGED callerVars

\* the timer fires first: controller.abort() rejects the fetch
FetchAbort(r) ==
    /\ req[r].pc = "fetch"
    /\ Finish(r, Outcome("abort", Undefined))

\* the fetch rejects (connection refused, reset, DNS)
FetchNetworkError(r) ==
    /\ req[r].pc = "fetch"
    /\ Finish(r, Outcome("network", Undefined))

\* response.json() resolves
FetchBodyJson(r, payload) ==
    /\ req[r].pc = "body"
    /\ payload \in PayloadsFor(req[r].call.op)
    /\ Finish(r, Outcome("json", payload))

\* response.json() rejects (invalid JSON, connection lost)
FetchBodyError(r) ==
    /\ req[r].pc = "body"
    /\ Finish(r, Outcome("bodyerror", Undefined))

\* the TTL of a cache entry runs out
CacheExpire ==
    /\ \E k \in DOMAIN cache : cache' = cacheDel(cache, k)
    /\ event' = NoEvent
    /\ UNCHANGED <<isEnabled, started, req>>
    /\ UNCHANGED storeVars
    /\ UNCHANGED envVars
    /\ UNCHANGED callerVars

\* ------------------------------------------------------------ app.ts
\* the routes and middleware of app.ts that answer under /api/v1 without a
\* controller: the base route, the 404 handler, and the error middleware,
\* which sends error.status || 500
AppResponse(kind, status) ==
    IF kind = "apiBase"
    THEN [status |-> 200, success |-> "absent",
          fields |-> {"message", "version", "description", "documentation", "endpoints"},
          code |-> 0, data |-> Undefined]
    ELSE IF kind = "notFound"
    THEN [status |-> 404, success |-> "absent",
          fields |-> {"error", "message", "documentation"}, code |-> 0, data |-> Undefined]
    ELSE [status |-> status, success |-> "absent",
          fields |-> {"error", "message"}, code |-> 0, data |-> Undefined]

AppRoutes ==
    {[kind |-> "apiBase", status |-> 200], [kind |-> "notFound", status |-> 404],
     [kind |-> "errorMiddleware", status |-> 400], [kind |-> "errorMiddleware", status |-> 500]}

AppRoute(r, kind, status) ==
    /\ mq = <<>>
    /\ FreeSlot(r)
    /\ Proceed(r, kind, NoArgs, Respond(AppResponse(kind, status)),
               [fetches |-> 0, cached |-> Undefined, outcome |-> NoOutcome, call |-> NoCall])
    /\ UNCHANGED svcVars
    /\ UNCHANGED storeVars
    /\ UNCHANGED envVars
    /\ UNCHANGED callerVars

\* the callback of app.listen: pre-load inside try/catch
Startup ==
    /\ ~started
    /\ mq = <<>>
    /\ started' = TRUE
    /\ \E run \in {loadDataRun(DS, promiseState, fileOk, csv, readCount + 1)} :
          /\ run.read => readCount < MaxLoads
          /\ SetDS(run.d)
          /\ readCount' = IF run.read THEN readCount + 1 ELSE readCount
          /\ parseCount' = IF run.read /\ ~run.thrown THEN parseCount + 1 ELSE parseCount
          /\ promiseState' = IF run.read
                             THEN [promiseState EXCEPT ![readCount + 1] =
                                      IF run.thrown THEN "rejected" ELSE "fulfilled"]
                             ELSE promiseState
    /\ event' = NoEvent
    /\ UNCHANGED <<waiters, csv, fileOk, isEnabled, cache, req>>
    /\ UNCHANGED callerVars

\* getEnhancedProfessor reaches its merge with the i-th professor of the
\* Store as basicData and the body apiData of the external service
CombineData(i, apiData) ==
    /\ isDataLoaded
    /\ i \in 1..Len(professors)
    /\ event' = [NoEvent EXCEPT !.kind = "merge",
                                !.call = EnhancedCall(professors[i].name, professors[i]),
                                !.outcome = Outcome("json", apiData),
                                !.result = combineData(professors[i], apiData)]
    /\ UNCHANGED <<started, req>>
    /\ UNCHANGED storeVars
    /\ UNCHANGED envVars
    /\ UNCHANGED callerVars
    /\ UNCHANGED <<isEnabled, cache>>

\* getEnhancedProfessor reaches its fallback with the i-th professor of the
\* Store as basicData
FallbackToBasicData(i) ==
    /\ isDataLoaded
    /\ i \in 1..Len(professors)
    /\ event' = [NoEvent EXCEPT !.kind = "fallback",
                                !.call = EnhancedCall(professors[i].name, professors[i]),
                                !.result = fallbackToBasicData(professors[i])]
    /\ UNCHANGED <<started, req>>
    /\ UNCHANGED storeVars
    /\ UNCHANGED envVars
    /\ UNCHANGED callerVars
    /\ UNCHANGED <<isEnabled, cache>>

\* a caller other than a controller calls dataService.searchCourses (the
\* microtask queue is empty, so its loadData runs through); maxDifficulty
\* is the number the text args.max_difficulty denotes, undefined when empty
SearchCourses(args) ==
    /\ mq = <<>>
    /\ \E run \in {loadDataRun(DS, promiseState, fileOk, csv, readCount + 1)} :
          /\ run.read => readCount < MaxLoads
          /\ SetDS(run.d)
          /\ readCount' = IF run.read THEN readCount + 1 ELSE readCount
          /\ parseCount' = IF run.read /\ ~run.thrown THEN parseCount + 1 ELSE parseCount
          /\ promiseState' = IF run.read
                             THEN [promiseState EXCEPT ![readCount + 1] =
                                      IF run.thrown THEN "rejected" ELSE "fulfilled"]
                             ELSE promiseState
          /\ event' = [NoEvent EXCEPT
                         !.kind = "store",
                         !.handler = "searchCourses",
                         !.args = args,
                         !.escaped = run.thrown,
                         !.result = IF run.thrown THEN Undefined
                                    ELSE Array(searchCourses(run.d, args.q, args.department,
                                                             parseMaxDifficulty(args.max_difficulty)))]
    /\ UNCHANGED <<waiters, csv, fileOk, req>>
    /\ UNCHANGED svcVars
    /\ UNCHANGED callerVars


\* ============================================================ specifications
\* ---- the DataService under direct, concurrent callers
InitStore ==
    /\ courses = <<>>
    /\ reviews = <<>>
    /\ professors = <<>>
    /\ departments = <<>>
    /\ isDataLoaded = FALSE
    /\ loadingPromise = NULL
    /\ promiseState = [p \in Promises |-> "unused"]
    /\ waiters = [p \in Promises |-> <<>>]
    /\ readCount = 0
    /\ parseCount = 0

InitCallers ==
    /\ mq = <<>>
    /\ callerPc = [c \in Callers |-> "idle"]
    /\ callerOp = [c \in Callers |-> "loadData"]
    /\ callerStarter = [c \in Callers |-> FALSE]
    /\ callerAwaits = [c \in Callers |-> NULL]
    /\ callerStatus = [c \in Callers |-> "none"]
    /\ callerObs = [c \in Callers |-> NoObs]
    /\ callerInFlight = [c \in Callers |-> FALSE]
    /\ callerFileOk = [c \in Callers |-> TRUE]

InitRequests ==
    /\ req = [r \in Requests |-> IdleReq]
    /\ event = NoEvent

\* the constructor of ProfessorService: an empty cache, the flag from the
\* environment
InitService ==
    /\ isEnabled \in BOOLEAN
    /\ cache = [k \in {} |-> Undefined]
    /\ started = FALSE

InitLoad ==
    /\ InitStore
    /\ InitCallers
    /\ InitRequests
    /\ InitService
    /\ csv \in CsvFiles
    /\ fileOk \in BOOLEAN

NextLoad ==
    \/ \E c \in Callers, op \in StoreOps : CallStoreOp(c, op)
    \/ PerformDataLoadResume
    \/ LoadDataResume
    \/ StoreOpResume
    \/ ToggleFile

vars == <<storeVars, envVars, callerVars, svcVars, reqVars>>

SpecLoad == InitLoad /\ [][NextLoad]_vars


\* ---- the ProfessorService under direct calls
\* the Store professors a caller can pass as basicData
BasicProfessors(f) ==
    {BuildProfessors(RowReviews(f))[i] : i \in 1..Len(BuildProfessors(RowReviews(f)))}


\* getEnhancedProfessor under the professor's name as stored and in upper
\* case, getProfessorAnalytics under two spellings that differ in case and
\* in a run of spaces, one search, the health check
ServiceCalls ==
    UNION {{EnhancedCall(b.name, b), EnhancedCall(toUpperCase(b.name), b)} : b \in BasicProfessors(CsvLin)}
    \cup {SearchCall(Txt.sX, <<>>, <<>>, 0)}
    \cup {AnalyticsCall(Txt.sAB), AnalyticsCall(Txt.sABwide)}
    \cup {HealthCall}

InitEnrich ==
    /\ InitStore
    /\ InitCallers
    /\ InitRequests
    /\ InitService
    /\ csv = CsvLin
    /\ fileOk = TRUE

NextEnrich ==
    \/ \E r \in Requests, call \in ServiceCalls : ServiceCall(r, call)
    \/ \E r \in Requests, ok \in BOOLEAN : FetchResponse(r, ok)
    \/ \E r \in Requests : FetchAbort(r)
    \/ \E r \in Requests : FetchNetworkError(r)
    \/ \E r \in Requests, payload \in ProfessorPayloads \cup SearchPayloads \cup AnalyticsPayloads :
          FetchBodyJson(r, payload)
    \/ \E r \in Requests : FetchBodyError(r)
    \/ CacheExpire

SpecEnrich == InitEnrich /\ [][NextEnrich]_vars

\* the timer each method sets before its fetch fires unless clearTimeout
\* ran first; nothing obliges the external service to answer, or to finish
\* a body it began to send
TimerFairness == \A r \in Requests : WF_vars(FetchAbort(r))

SpecEnrichLive == InitEnrich /\ [][NextEnrich]_vars /\ TimerFairness

\* ---- the HTTP API

\* limit: absent, zero, negative, above every maximum
Limits == {<<>>, <<"0">>, <<"-","1">>, <<"9","9","9">>}

Args(f) == [k \in DOMAIN NoArgs |-> IF k \in DOMAIN f THEN f[k] ELSE NoArgs[k]]

ApiRequests ==
    {[handler |-> "getAllCourses", args |-> Args([limit |-> l])] : l \in Limits}
    \cup {[handler |-> "searchProfessors", args |-> Args([q |-> Txt.sX, limit |-> l])]
            : l \in {<<>>, <<"-","1">>}}
    \cup {[handler |-> "searchProfessors", args |-> Args([limit |-> <<"1">>])],
          [handler |-> "searchCourses", args |-> Args([q |-> Txt.sCS, limit |-> <<"a","b","c">>])],
          [handler |-> "searchCourses", args |-> Args([department |-> Txt.sCS, max_difficulty |-> <<"3">>,
                                                       limit |-> <<"1">>])],
          [handler |-> "getEasyCourses", args |-> Args([limit |-> <<"9","9","9">>])],
          [handler |-> "getCourseDetails", args |-> Args([code |-> Txt.sCS1])],
          [handler |-> "getEnhancedCourseDetails", args |-> Args([code |-> Txt.sAHS7])],
          [handler |-> "getEnhancedCourseDetails", args |-> Args([code |-> Txt.sZZ1])],
          [handler |-> "getProfessorDetails", args |-> Args([name |-> Txt.sBlank])],
          [handler |-> "getProfessorDetails", args |-> Args([name |-> Txt.sLi])],
          [handler |-> "getProfessorDetails", args |-> Args([name |-> Txt.sX])],
          [handler |-> "getProfessorAnalytics", args |-> Args([name |-> Txt.sBlank])],
          [handler |-> "getProfessorAnalytics", args |-> Args([name |-> Txt.sLi])],
          [handler |-> "healthCheck", args |-> NoArgs]}

InitApi ==
    /\ InitStore
    /\ InitCallers
    /\ InitRequests
    /\ InitService
    /\ csv = CsvLin
    /\ fileOk \in BOOLEAN

NextApi ==
    \/ Startup
    \/ \E r \in Requests, q \in ApiRequests : HttpRequest(r, q.handler, q.args)
    \/ \E r \in Requests, a \in AppRoutes : AppRoute(r, a.kind, a.status)
    \/ \E r \in Requests, ok \in BOOLEAN : FetchResponse(r, ok)
    \/ \E r \in Requests : FetchAbort(r)
    \/ \E r \in Requests : FetchNetworkError(r)
    \/ \E r \in Requests, payload \in ProfessorPayloads \cup SearchPayloads \cup AnalyticsPayloads :
          FetchBodyJson(r, payload)
    \/ \E r \in Requests : FetchBodyError(r)
    \/ CacheExpire

SpecApi == InitApi /\ [][NextApi]_vars

\* ---- the Store built from a CSV, and the operations that read it
\* rows that test the validation of a row: the course code missing or
\* present, the Difficulty missing, below, inside and above 1..10, not a
\* number
RowClasses == {<<>>, Txt.cCS1, Txt.cAHS7}
RowDifficulties == {<<>>, <<"0">>, <<"1">>, <<"1","0">>, <<"1","1">>, <<"x">>}
RowFiles ==
    UNION {[1..n -> {RawRow(c, d, <<>>) : c \in RowClasses, d \in RowDifficulties}]
             : n \in 0..MaxRows}

\* rows that pass validation: four courses of one department, reviews with
\* and without a professor's name
ReviewRows ==
    { RawRow(Txt.cAHS7, <<"2">>, <<Txt.wDr, Txt.wLin>>),
      RawRow(Txt.cAHS7, <<"4">>, <<Txt.wDr, Txt.wLin>>),
      RawRow(Txt.cAHS9, <<"5">>, <<Txt.wDr, Txt.wLin>>),
      RawRow(Txt.cAHS1, <<"8">>, <<Txt.wWith, Txt.wLi>>),
      RawRow(Txt.cAHS2, <<"3">>, <<>>) }
ReviewFiles == UNION {[1..n -> ReviewRows] : n \in 1..MaxReviews}

\* the parameters of searchCourses: each filter absent and present
SearchArgs ==
    { NoArgs,
      Args([q |-> <<"s","7">>]),
      Args([department |-> <<"a","h","s">>]),
      Args([max_difficulty |-> <<"3">>]),
      Args([max_difficulty |-> <<"x">>]),
      Args([q |-> <<"s">>, department |-> <<"a","h","s">>, max_difficulty |-> <<"4">>]) }

EasyArgs == {NoArgs, Args([department |-> <<"a","h","s">>])}

InitQuery ==
    /\ InitStore
    /\ InitCallers
    /\ InitRequests
    /\ isEnabled = TRUE
    /\ cache = [k \in {} |-> Undefined]
    /\ started = FALSE
    /\ csv \in RowFiles \cup ReviewFiles
    /\ fileOk = TRUE

NextQuery ==
    \/ \E args \in SearchArgs : SearchCourses(args)
    \/ \E r \in Requests, args \in EasyArgs : HttpRequest(r, "getEasyCourses", args)

SpecQuery == InitQuery /\ [][NextQuery]_vars

\* ---- the merge of a Store professor with an external payload
\* reviews of one course that name one professor, of difficulties whose
\* means include 2, 2.67 and 10
GroupDifficulties == {<<"2">>, <<"4">>, <<"1","0">>}

\* longer files, of reviews of one difficulty, for the review counts
GroupFiles ==
    UNION {[1..n -> {RawRow(Txt.cAHS7, d, <<Txt.wDr, Txt.wLin>>) : d \in GroupDifficulties}]
           : n \in 1..MaxGroup}
    \cup {[i \in 1..n |-> RawRow(Txt.cAHS7, <<"2">>, <<Txt.wDr, Txt.wLin>>)] : n \in 1..MaxBigGroup}

\* bodies of GET /api/professor: rating absent (0), on the scale, and off
\* it on either side; sentiment absent, and from -1 to 1
MergePayloads ==
    {[t |-> "object", rating |-> r, difficulty |-> d, num_ratings |-> n,
      department |-> <<>>, reddit_sentiment |-> sn] :
        r \in {0 - 100, 0, 400, 500, 900}, d \in {0, 450}, n \in {0, 4, 10, 25},
        sn \in {JsonNull, Sentiment(0 - 100, 1), Sentiment(20, 3), Sentiment(100, 6)}}

InitMerge ==
    /\ InitStore
    /\ InitCallers
    /\ InitRequests
    /\ isEnabled = TRUE
    /\ cache = [k \in {} |-> Undefined]
    /\ started = FALSE
    /\ csv \in GroupFiles
    /\ fileOk = TRUE

NextMerge ==
    \/ Startup
    \/ \E i \in 1..MaxGroup, apiData \in MergePayloads : CombineData(i, apiData)
    \/ \E i \in 1..MaxGroup : FallbackToBasicData(i)

SpecMerge == InitMerge /\ [][NextMerge]_vars

\* ---- search and analytics, called directly and through GET professors/search
SearchCalls ==
    {SearchCall(Txt.sX, <<>>, <<>>, 0), AnalyticsCall(Txt.sAB), AnalyticsCall(Txt.sABwide)}

NextSearch ==
    \/ \E r \in Requests, call \in SearchCalls : ServiceCall(r, call)
    \/ \E r \in Requests, l \in {<<>>, <<"1">>} :
          HttpRequest(r, "searchProfessors", Args([q |-> Txt.sX, limit |-> l]))
    \/ \E r \in Requests, ok \in BOOLEAN : FetchResponse(r, ok)
    \/ \E r \in Requests : FetchAbort(r)
    \/ \E r \in Requests : FetchNetworkError(r)
    \/ \E r \in Requests, payload \in SearchPayloads \cup AnalyticsPayloads :
          FetchBodyJson(r, payload)
    \/ \E r \in Requests : FetchBodyError(r)
    \/ CacheExpire

SpecSearch == InitEnrich /\ [][NextSearch]_vars

\* ---- GET professors/{name}: a blank name, a part of a name and a whole
\* name the Store finds, a name it does not find
DetailNames == {Txt.sBlank, Txt.sLi, Txt.wLin, Txt.sX}

NextDetails ==
    \/ \E r \in Requests, n \in DetailNames :
          HttpRequest(r, "getProfessorDetails", Args([name |-> n]))
    \/ \E r \in Requests, ok \in BOOLEAN : FetchResponse(r, ok)
    \/ \E r \in Requests : FetchAbort(r)
    \/ \E r \in Requests : FetchNetworkError(r)
    \/ \E r \in Requests, payload \in ProfessorPayloads \cup SearchPayloads \cup {NoneFound} :
          FetchBodyJson(r, payload)
    \/ \E r \in Requests : FetchBodyError(r)
    \/ CacheExpire

SpecDetails == InitApi /\ [][NextDetails]_vars


\* =================================================================== claims
DoneOk(c) == callerPc[c] = "done" /\ callerStatus[c] = "ok"

\* what one aggregation pass over the CSV leaves in the collections
LoadedCollections == Snapshot(performDataLoadResume(processRawData(EmptyDS, csv)))

\* C1: callers that arrive while a load is in flight do not read the CSV
\* again (at most one load is ever pending, and none of them starts one);
\* every caller that returns normally returns after isDataLoaded was set and
\* the collections were built from the CSV; callers that awaited the same
\* load observe the same courses, reviews, professors and departments.
C1_ConcurrentLoadOnce ==
    /\ Cardinality({p \in Promises : promiseState[p] = "pending"}) <= 1
    /\ \A c \in Callers :
          (callerPc[c] # "idle" /\ callerInFlight[c]) => ~callerStarter[c]
    /\ \A c \in Callers :
          (DoneOk(c) /\ callerAwaits[c] # NULL) => callerObs[c] = LoadedCollections
    /\ \A c1, c2 \in Callers :
          (DoneOk(c1) /\ DoneOk(c2) /\ callerAwaits[c1] = callerAwaits[c2])
             => callerObs[c1] = callerObs[c2]

C1_Witness ==
    /\ parseCount = 1
    /\ Len(courses) > 0
    /\ \E c1, c2 \in Callers :
          /\ c1 # c2
          /\ DoneOk(c1) /\ DoneOk(c2)
          /\ callerStarter[c1] /\ callerInFlight[c2]
          /\ callerAwaits[c1] = callerAwaits[c2]

\* C2: a load attempt that fails is retryable: a Store request made after
\* the failed attempt ended (no load in flight), while the file is readable,
\* starts a fresh load and does not end with the load error.
C2_FailedLoadRetryable ==
    \A c \in Callers :
       (callerPc[c] = "done" /\ callerStatus[c] = "thrown")
          => (~callerFileOk[c] \/ callerInFlight[c])

StoreCollections == <<courses, reviews, professors, departments>>

\* C4: after the load completes, no API request changes the Store's
\* courses, reviews, professors or departments, the order of their
\* elements included.
C4_RequestsLeaveStoreUnchanged ==
    [][isDataLoaded => StoreCollections' = StoreCollections]_vars

EnhancedReturn ==
    event.kind = "return" /\ event.call.op = "getEnhancedProfessor"

\* the external call failed: non-success status, timeout abort, network
\* error, a body that cannot be read as JSON, or the JSON body null
ExternalFailure(outcome) ==
    \/ outcome.kind \in {"nonok", "abort", "network", "bodyerror"}
    \/ outcome.kind = "json" /\ outcome.payload = JsonNull

\* C5: with enrichment enabled, getEnhancedProfessor never throws, whatever
\* the outcome of the external call, and when the external call failed it
\* returns the local-only fallback record built from the Store professor.
C5_ExternalFailureFallsBack ==
    (isEnabled /\ EnhancedReturn) =>
       /\ ~event.escaped
       /\ ExternalFailure(event.outcome) => event.result = fallbackToBasicData(event.call.basic)

C5_Witness ==
    /\ isEnabled /\ EnhancedReturn
    /\ event.outcome.kind = "abort"
    /\ event.result = fallbackToBasicData(event.call.basic)

\* C6: with the enrichment flag off, getEnhancedProfessor makes no external
\* request and every record it returns has data_quality "low", data_sources
\* ["UCR Course Reviews"] and rmp_num_ratings 0.
C6_FlagOffLocalOnly ==
    ~isEnabled =>
       /\ \A r \in Requests : req[r].call.op # "getEnhancedProfessor"
       /\ EnhancedReturn =>
             /\ ~event.escaped
             /\ event.fetches = 0
             /\ event.result.data_quality = "low"
             /\ event.result.data_sources = <<"UCR Course Reviews">>
             /\ event.result.rmp_num_ratings = 0

C6_Witness ==
    /\ ~isEnabled /\ EnhancedReturn
    /\ event.result.data_quality = "low"
    /\ event.result.name = event.call.basic.name

CachedCalls == {"getEnhancedProfessor", "searchProfessors", "getProfessorAnalytics"}

\* C7: with enrichment enabled, a call of getEnhancedProfessor,
\* searchProfessors or getProfessorAnalytics made while the cache holds a
\* record under the call's key (the name in lower case with each run of
\* whitespace replaced by an underscore, or the composite search key)
\* performs no external request and returns the cached record.
C7_CacheHitShortCircuits ==
    (/\ isEnabled
     /\ event.kind = "return"
     /\ event.call.op \in CachedCalls
     /\ event.cached.t = "object")
       => (event.fetches = 0 /\ ~event.escaped /\ event.result = event.cached)

\* a hit under a spelling of the name other than the one the record was
\* cached under
C7_Witness ==
    /\ isEnabled
    /\ event.kind = "return"
    /\ event.call.op = "getEnhancedProfessor"
    /\ event.call.name # event.call.basic.name
    /\ event.cached.t = "object"
    /\ event.cached.rmp_num_ratings > 0
    /\ event.fetches = 0
    /\ event.result = event.cached

LimitHandlers == {"searchCourses", "getEasyCourses", "getAllCourses", "searchProfessors"}

ItemsReturned ==
    IF event.handler = "searchProfessors"
    THEN Len(event.resp.data.professors)
    ELSE Len(event.resp.data.courses)

\* C8: whatever the limit parameter, a request to courses/search,
\* courses/easy, courses or professors/search is not rejected for it, and
\* the number of items returned does not exceed 100, 50, 200 and 50.
C8_LimitClampedNeverRejected ==
    (event.kind = "handler" /\ event.handler \in LimitHandlers) =>
       /\ (event.handler = "searchProfessors" /\ event.args.q = <<>>) \/ event.resp.status # 400
       /\ event.resp.success = "true" =>
             ItemsReturned <= (IF event.handler = "searchCourses" THEN 100
                               ELSE IF event.handler = "getAllCourses" THEN 200 ELSE 50)

SuccessEnvelope(resp) ==
    /\ resp.success = "true"
    /\ {"success", "data", "timestamp"} \subseteq resp.fields
    /\ resp.status \in 200..299

ErrorEnvelope(resp) ==
    /\ resp.success = "false"
    /\ {"success", "error", "message", "timestamp", "code"} \subseteq resp.fields
    /\ resp.status \notin 200..299
    /\ resp.status = resp.code

\* C9: every response to an API request is the success envelope with a 2xx
\* status or the error envelope with a non-2xx status equal to its code.
C9_EnvelopeMatchesStatus ==
    (event.kind = "handler" /\ event.sent > 0) =>
       (SuccessEnvelope(event.resp) \/ ErrorEnvelope(event.resp))

Handlers ==
    {"searchCourses", "getCourseDetails", "getEasyCourses", "getAllCourses",
     "getEnhancedCourseDetails", "searchProfessors", "getProfessorDetails",
     "getProfessorAnalytics", "healthCheck"}

\* C10: every run of a course or professor handler ends with exactly one
\* response sent and no exception leaving the handler, whatever the Store
\* load and the external service did.
C10_ExactlyOneResponse ==
    (event.kind = "handler" /\ event.handler \in Handlers) =>
       (event.sent = 1 /\ ~event.escaped)

\* a handler whose Store load threw answered 500
C10_Witness ==
    /\ event.kind = "handler" /\ event.handler = "getAllCourses"
    /\ ~fileOk /\ ~isDataLoaded
    /\ event.sent = 1 /\ event.resp.status = 500

\* ---- claims about the Store built from a CSV
\* the text s denotes the integer n: leading and trailing blanks aside, the
\* digits of n followed by no further digit
DenotesInt(s, n) ==
    LET t == trim(s)
        d == NatToStr(n)
    IN  /\ Len(t) >= Len(d)
        /\ SubSeq(t, 1, Len(d)) = d
        /\ (Len(t) = Len(d) \/ ~IsDigit(t[Len(d) + 1]))

ValidRow(row) ==
    /\ normalizeCourseCode(row.Class) # <<>>
    /\ \E n \in 1..10 : DenotesInt(row.Difficulty, n)

ValidRows == SelectSeq(csv, LAMBDA row : ValidRow(row))

\* C11: the load of any CSV completes, and the stored reviews are, in
\* order, the rows that have a non-empty course code and a Difficulty that
\* denotes an integer in 1..10: every other row is skipped, and every
\* stored review has a difficulty in 1..10.
C11_ReviewIffValidRow ==
    /\ \A p \in Promises : promiseState[p] # "rejected"
    /\ parseCount > 0 => isDataLoaded
    /\ isDataLoaded =>
          /\ Len(reviews) = Len(ValidRows)
          /\ \A i \in 1..Len(reviews) :
                /\ reviews[i].difficulty \in 1..10
                /\ reviews[i].course_code = normalizeCourseCode(ValidRows[i].Class)
                /\ DenotesInt(ValidRows[i].Difficulty, reviews[i].difficulty)

\* a row with Difficulty 11 was skipped, the row after it was kept
C11_Witness ==
    /\ isDataLoaded
    /\ Len(csv) = 2
    /\ csv[1].Class # <<>> /\ csv[1].Difficulty = <<"1","1">>
    /\ Len(reviews) = 1
    /\ reviews[1].difficulty = 10

ReviewsOfCourse(code) == SelectSeq(reviews, LAMBDA r : r.course_code = code)

CountIn(revs, lo, hi) ==
    Cardinality({i \in 1..Len(revs) : revs[i].difficulty >= lo /\ revs[i].difficulty <= hi})

\* C12: for every course of the Store the five buckets count the course's
\* reviews of difficulty <= 2, 3-4, 5-6, 7-8 and >= 9, they add up to
\* total_reviews, which is the number of the course's reviews, at least 1.
C12_BucketsSumToTotal ==
    \A i \in 1..Len(courses) :
       LET c == courses[i]
           b == c.difficulty_distribution
           revs == ReviewsOfCourse(c.course_code)
       IN  /\ c.total_reviews >= 1
           /\ c.total_reviews = Len(revs)
           /\ b.very_easy + b.easy + b.moderate + b.hard + b.very_hard = c.total_reviews
           /\ b.very_easy = CountIn(revs, 1, 2)
           /\ b.easy = CountIn(revs, 3, 4)
           /\ b.moderate = CountIn(revs, 5, 6)
           /\ b.hard = CountIn(revs, 7, 8)
           /\ b.very_hard = CountIn(revs, 9, 10)

\* a course with reviews in two buckets
C12_Witness ==
    \E i \in 1..Len(courses) :
       /\ courses[i].total_reviews = 3
       /\ courses[i].difficulty_distribution.very_easy = 2
       /\ courses[i].difficulty_distribution.easy = 1

\* course c passes the filters of args, in the words of the claim; the text
\* of max_difficulty denotes a whole number or, like "x", no number at all
MatchesFilters(c, args) ==
    /\ \/ args.q = <<>>
       \/ includes(c.course_code, toUpperCase(args.q))
       \/ includes(c.department, toUpperCase(args.q))
    /\ \/ args.department = <<>>
       \/ c.department = toUpperCase(args.department)
    /\ \/ args.max_difficulty = <<>>
       \/ \E n \in 0..10 : DenotesInt(args.max_difficulty, n) /\ c.average_difficulty <= 100 * n

SeqToSet(q) == {q[i] : i \in 1..Len(q)}

\* C13: searchCourses returns exactly the Store courses that pass the three
\* filters, an absent filter passing every course: none is added, none is
\* omitted, none is repeated.
C13_SearchReturnsExactlyMatches ==
    (event.kind = "store" /\ event.handler = "searchCourses") =>
       /\ ~event.escaped
       /\ SeqToSet(event.result.items) = {c \in SeqToSet(courses) : MatchesFilters(c, event.args)}
       /\ Len(event.result.items) = Cardinality(SeqToSet(event.result.items))

\* the three filters together, a course returned and a course left out
C13_Witness ==
    /\ event.kind = "store"
    /\ event.args.q # <<>> /\ event.args.department # <<>> /\ event.args.max_difficulty # <<>>
    /\ Len(event.result.items) >= 1
    /\ Len(event.result.items) < Len(courses)

DifficultyOf(code) ==
    (CHOOSE c \in SeqToSet(courses) : c.course_code = code).average_difficulty

CodesOfDepartment(deptCode) ==
    {c.course_code : c \in {x \in SeqToSet(courses) : x.department = deptCode}}

\* C15: for every department, easiest_courses lists min(3, n) of its n
\* courses, none of the others being easier, in ascending order of
\* average_difficulty; hardest_courses lists min(3, n) of them, none of the
\* others being harder, in descending order; with at most 3 courses
\* hardest_courses is easiest_courses reversed.
C15_EasiestAndHardestLists ==
    \A k \in 1..Len(departments) :
       LET dep == departments[k]
           codes == CodesOfDepartment(dep.code)
           n == Cardinality(codes)
           e == dep.easiest_courses
           h == dep.hardest_courses
       IN  /\ Len(e) = Min(3, n) /\ Len(h) = Min(3, n)
           /\ Cardinality(SeqToSet(e)) = Len(e) /\ Cardinality(SeqToSet(h)) = Len(h)
           /\ SeqToSet(e) \subseteq codes /\ SeqToSet(h) \subseteq codes
           /\ \A i, j \in 1..Len(e) : i < j => DifficultyOf(e[i]) <= DifficultyOf(e[j])
           /\ \A i, j \in 1..Len(h) : i < j => DifficultyOf(h[i]) >= DifficultyOf(h[j])
           /\ \A x \in codes \ SeqToSet(e) : \A i \in 1..Len(e) : DifficultyOf(x) >= DifficultyOf(e[i])
           /\ \A x \in codes \ SeqToSet(h) : \A i \in 1..Len(h) : DifficultyOf(x) <= DifficultyOf(h[i])
           /\ n <= 3 => h = [i \in 1..Len(e) |-> e[Len(e) + 1 - i]]

\* a department of four courses: the two lists differ in their members
C15_Witness ==
    \E k \in 1..Len(departments) :
       /\ departments[k].total_courses = 4
       /\ departments[k].easiest_courses = <<Txt.cAHS7, Txt.cAHS2, Txt.cAHS9>>
       /\ departments[k].hardest_courses = <<Txt.cAHS1, Txt.cAHS9, Txt.cAHS2>>

ReviewsOfProfessor(name) == SelectSeq(reviews, LAMBDA r : r.professor_name = name)

\* a, in hundredths, is the mean of the difficulties of revs rounded to 2
\* decimal places: it differs from the mean by at most half a hundredth
IsRoundedMean(a, revs) ==
    LET sum == SumSeq([i \in 1..Len(revs) |-> revs[i].difficulty])
        diff == a * Len(revs) - 100 * sum
    IN  /\ Len(revs) >= 1
        /\ 2 * diff <= Len(revs)
        /\ 2 * diff >= 0 - Len(revs)

\* C16: average_difficulty of every course and of every professor of the
\* Store is the mean difficulty of the reviews of its group rounded to 2
\* decimal places, and lies in [1, 10].
C16_AverageIsRoundedMean ==
    /\ \A i \in 1..Len(courses) :
          /\ IsRoundedMean(courses[i].average_difficulty, ReviewsOfCourse(courses[i].course_code))
          /\ courses[i].average_difficulty \in 100..1000
    /\ \A i \in 1..Len(professors) :
          /\ IsRoundedMean(professors[i].average_difficulty, ReviewsOfProfessor(professors[i].name))
          /\ professors[i].average_difficulty \in 100..1000

\* reviews 2, 2, 4 of one course by one professor: 2.67
C16_Witness ==
    /\ Len(courses) = 1 /\ Len(professors) = 1
    /\ MapDifficulty(reviews) = <<2, 2, 4>>
    /\ courses[1].average_difficulty = 267
    /\ professors[1].average_difficulty = 267

\* ------------------------------------- claims about the merged professor
\* the sentiment score of a payload, in hundredths, 0 when it has none
SentimentOf(apiData) ==
    IF apiData.reddit_sentiment.t = "object" THEN apiData.reddit_sentiment.score ELSE 0

\* 0.7 * rating + 0.2 * ((11 - avg) / 2) + 0.1 * ((sentiment + 1) * 2.5),
\* times 10000, rating, avg and sentiment being given in hundredths
Weighted10000(rating, avg, sentiment) ==
    70 * rating + 10 * (1100 - avg) + 25 * (sentiment + 100)

\* C17: the combined_rating of a merged professor is 0.7 * rating + 0.2 *
\* ((11 - average_difficulty) / 2) + 0.1 * ((sentiment + 1) * 2.5) rounded
\* to 2 decimal places (a whole number of hundredths at most half a
\* hundredth away), a missing rating or sentiment counting as 0.
C17_CombinedRatingFormula ==
    event.kind = "merge" =>
       LET w == Weighted10000(event.outcome.payload.rating,
                              event.call.basic.average_difficulty,
                              SentimentOf(event.outcome.payload))
           cr == event.result.combined_rating
       IN  /\ cr % 10 = 0
           /\ 10 * cr - w <= 50
           /\ w - 10 * cr <= 50

\* average_difficulty 2, rating 4.0, sentiment 0.2: combined_rating 4.0
C17_Witness ==
    /\ event.kind = "merge"
    /\ event.call.basic.average_difficulty = 200
    /\ event.outcome.payload.rating = 400
    /\ event.outcome.payload.reddit_sentiment = Sentiment(20, 3)
    /\ event.result.combined_rating = 4000

\* C18: the recommendation_score of a professor is within [0, 100], after
\* the merge and after the fallback, for every professor of the Store and
\* every payload.
C18_RecommendationScoreInRange ==
    event.kind \in {"merge", "fallback"} =>
       /\ event.result.recommendation_score >= 0
       /\ event.result.recommendation_score <= 1000

\* a merge whose score before the clamp exceeds 100: rating 9, easy courses
C18_Witness ==
    /\ event.kind = "merge"
    /\ event.outcome.payload.rating = 900
    /\ event.call.basic.average_difficulty = 200
    /\ event.result.recommendation_score = 1000

\* C19: the combined_rating of a professor is within the documented scale
\* of 1 to 5, after the merge and after the fallback.
C19_CombinedRatingOnScale ==
    event.kind \in {"merge", "fallback"} =>
       /\ event.result.combined_rating >= 1000
       /\ event.result.combined_rating <= 5000

\* C20: after the fallback the recommendation_score is
\* clamp(0, 100, round((11 - average_difficulty) * 10)), a whole number.
C20_FallbackScoreRounded ==
    event.kind = "fallback" =>
       event.result.recommendation_score =
          10 * Max(0, Min(100, (1100 - event.call.basic.average_difficulty + 5) \div 10))

ReviewsOfDepartment(deptCode) ==
    SelectSeq(reviews, LAMBDA r : r.course_code \in CodesOfDepartment(deptCode))

\* C25: average_difficulty of every department of the Store is the mean
\* difficulty of the reviews of the department's courses rounded to 2
\* decimal places.
C25_DepartmentAverageIsReviewMean ==
    \A k \in 1..Len(departments) :
       IsRoundedMean(departments[k].average_difficulty, ReviewsOfDepartment(departments[k].code))

\* ---------------------------------- claims about search and analytics
\* the step the event records met an external failure: the flag is off, or
\* the external call failed
FailedExternally == ~isEnabled \/ ExternalFailure(event.outcome)

\* C21: on every external failure (flag off, non-success status, timeout,
\* network error, unreadable body) searchProfessors returns the empty
\* result and getProfessorAnalytics returns null, neither throws, and GET
\* professors/search answers 200 with an empty list.
C21_SearchAndAnalyticsFailSoft ==
    /\ (event.kind = "return" /\ event.call.op = "searchProfessors" /\ FailedExternally) =>
          (~event.escaped /\ event.result = EmptySearch)
    /\ (event.kind = "return" /\ event.call.op = "getProfessorAnalytics" /\ FailedExternally) =>
          (~event.escaped /\ event.result = JsonNull)
    /\ (event.kind = "handler" /\ event.handler = "searchProfessors" /\ FailedExternally) =>
          /\ event.sent = 1
          /\ event.resp.status = 200
          /\ event.resp.data.professors = <<>>
          /\ event.resp.data.total_results = 0

\* the timeout fires during a search made for GET professors/search
C21_Witness ==
    /\ isEnabled
    /\ event.kind = "handler" /\ event.handler = "searchProfessors"
    /\ event.outcome.kind = "abort"
    /\ event.fetches = 1
    /\ event.resp.status = 200
    /\ event.resp.data.professors = <<>>

\* ------------------------------------------ claims about GET professors/{name}
DetailsEvent == event.kind = "handler" /\ event.handler = "getProfessorDetails"

\* the external search found nothing: it failed, or its list is empty,
\* whether the list was fetched or taken from the cache
SearchFoundNothing ==
    \/ FailedExternally
    \/ /\ event.outcome.kind = "json"
       /\ event.outcome.payload.t = "object"
       /\ event.outcome.payload.professors = Array(<<>>)
    \/ /\ event.fetches = 0
       /\ \E c \in {cacheGet(cache, callCacheKey(SearchCall(event.args.name, <<>>, <<>>, 0)))} :
             c.t = "object" /\ c.professors = Array(<<>>)

\* C22: GET professors/{name} (name not blank, Store loaded) resolves
\* local-first: the request waits for the external search only when the
\* Store finds no professor for the name; when the Store finds one the
\* response is 200 with the enhanced record of that professor; when it
\* finds none and the search returns a list, the response is the first
\* professor of the list; the response is 404 exactly when the Store finds
\* none and the search found nothing.
C22_ProfessorDetailsLocalFirst ==
    /\ \A r \in Requests :
          (req[r].handler = "getProfessorDetails" /\ req[r].pc # "idle") =>
             (req[r].call.op = "searchProfessors"
                <=> getProfessor(DS, req[r].args.name) = JsonNull)
    /\ (DetailsEvent /\ isDataLoaded /\ ~BlankName(event.args.name)) =>
          LET found == getProfessor(DS, event.args.name) IN
          /\ found # JsonNull =>
                /\ event.resp.status = 200
                /\ event.resp.data.name = found.name
                /\ event.resp.data.courses_taught = found.courses_taught
                /\ event.resp.data.total_reviews = found.total_reviews
          /\ (/\ found = JsonNull
              /\ event.outcome.kind = "json"
              /\ event.outcome.payload.t = "object"
              /\ event.outcome.payload.professors.t = "array"
              /\ event.outcome.payload.professors.items # <<>>) =>
                /\ event.resp.status = 200
                /\ event.resp.data = event.outcome.payload.professors.items[1]
          /\ event.resp.status = 404 <=> (found = JsonNull /\ SearchFoundNothing)

\* the Store has no match and the external search answers an empty list
C22_Witness ==
    /\ DetailsEvent /\ isDataLoaded /\ isEnabled
    /\ getProfessor(DS, event.args.name) = JsonNull
    /\ event.outcome.payload = NoneFound
    /\ event.resp.status = 404

\* ------------------------------------------------ claims about termination
\* C23: every enrichment operation eventually returns to its caller, even
\* if the external service never answers or never finishes sending its
\* response.
C23_EveryCallReturns ==
    \A r \in Requests : (req[r].pc # "idle") ~> (req[r].pc = "idle")

\* while the response headers are awaited the timer bounds the wait
C23_HeadersWaitEnds ==
    \A r \in Requests : (req[r].pc = "fetch") ~> (req[r].pc # "fetch")

\* ------------------------------------- claims about the merged record
\* the point score of a record with the given local review count, external
\* rating count and sentiment mention count
QualityPoints(localReviews, ratingCount, mentions) ==
    (IF localReviews >= 5 THEN 2 ELSE IF localReviews >= 2 THEN 1 ELSE 0)
    + (IF ratingCount >= 20 THEN 3 ELSE IF ratingCount >= 5 THEN 2
       ELSE IF ratingCount >= 1 THEN 1 ELSE 0)
    + (IF mentions >= 5 THEN 2 ELSE IF mentions >= 1 THEN 1 ELSE 0)

MentionsOf(apiData) ==
    IF apiData.reddit_sentiment.t = "object" THEN apiData.reddit_sentiment.mention_count ELSE 0

\* C24: the data_quality of a merged record is "high" when its point score
\* is at least 6, "medium" when at least 3, otherwise "low"; a record whose
\* external rating count is below 5 is never "high".
C24_DataQualityFromPoints ==
    event.kind = "merge" =>
       LET points == QualityPoints(event.call.basic.total_reviews,
                                   event.outcome.payload.num_ratings,
                                   MentionsOf(event.outcome.payload))
       IN  /\ event.result.data_quality =
                 (IF points >= 6 THEN "high" ELSE IF points >= 3 THEN "medium" ELSE "low")
           /\ event.outcome.payload.num_ratings < 5 => event.result.data_quality # "high"

\* 5 local reviews, 4 external ratings, 6 mentions: 5 points, "medium"
C24_Witness ==
    /\ event.kind = "merge"
    /\ event.call.basic.total_reviews = 5
    /\ event.outcome.payload.num_ratings = 4
    /\ MentionsOf(event.outcome.payload) = 6
    /\ event.result.data_quality = "medium"

\* bonus minus penalty of a payload: +10 for 20 ratings or more, else +5
\* for 10 or more; +5 for a sentiment score above 0.2; -10 for an external
\* difficulty above 4
BonusOf(apiData) ==
    (IF apiData.num_ratings >= 20 THEN 10 ELSE IF apiData.num_ratings >= 10 THEN 5 ELSE 0)
    + (IF SentimentOf(apiData) > 20 THEN 5 ELSE 0)
    - (IF apiData.difficulty > 400 THEN 10 ELSE 0)

\* C26: the recommendation_score of a merged record is
\* clamp(0, 100, round(combined_rating * 20 + bonus - penalty)), where
\* combined_rating is the value reported in the same record.
C26_RecommendationScoreFormula ==
    event.kind = "merge" =>
       event.result.recommendation_score =
          10 * Max(0, Min(100, (event.result.combined_rating
                                + 50 * BonusOf(event.outcome.payload) + 25) \div 50))

\* rating 4.0, average_difficulty 2, sentiment 1.0, 25 ratings, external
\* difficulty 4.5: combined_rating 4.2 and 84 + 10 + 5 - 10 = 89
C26_Witness ==
    /\ event.kind = "merge"
    /\ event.call.basic.average_difficulty = 200
    /\ event.outcome.payload.rating = 400
    /\ event.outcome.payload.num_ratings = 25
    /\ event.outcome.payload.difficulty = 450
    /\ SentimentOf(event.outcome.payload) = 100
    /\ event.result.combined_rating = 4200
    /\ event.result.recommendation_score = 890

\* ------------------------------------ claims about GET courses/{code}
\* C27: every professor listed in a response of GET courses/{code} or of
\* GET courses/{code}/enhanced has the course's code in courses_taught.
C27_ListedProfessorsTeachCourse ==
    (/\ event.kind = "handler"
     /\ event.handler \in {"getCourseDetails", "getEnhancedCourseDetails"}
     /\ event.resp.status = 200) =>
       \A i \in 1..Len(event.resp.data.professors) :
          \E k \in 1..Len(event.resp.data.professors[i].courses_taught) :
             event.resp.data.professors[i].courses_taught[k] = event.resp.data.course.course_code

\* --------------------------------- claims about the review collection
\* C28: after any sequence of load attempts, getCourseReviews returns
\* exactly total_reviews reviews for every course of the Store, every
\* review of the Store belongs to a course of the Store, and the Store
\* holds no row of the CSV twice.
C28_ReviewsMatchCourses ==
    /\ \A i \in 1..Len(courses) :
          Len(getCourseReviews(DS, courses[i].course_code)) = courses[i].total_reviews
    /\ \A j \in 1..Len(reviews) :
          \E i \in 1..Len(courses) : courses[i].course_code = reviews[j].course_code
    /\ reviews \in {<<>>, RowReviews(csv)}

\* two callers were served by one load: a course with two reviews
C28_Witness ==
    /\ \A c \in Callers : DoneOk(c)
    /\ readCount = 1
    /\ \E i \in 1..Len(courses) :
          /\ courses[i].total_reviews = 2
          /\ Len(getCourseReviews(DS, courses[i].course_code)) = 2


====
